---------------------------- MODULE Spec2Model ----------------------------
(***************************************************************************)
(* A model of the SEPA screening code: the relative-strength ranker        *)
(* (sepa_trade/rs.py), the daily and weekly trend templates                *)
(* (sepa_trade/technical.py, sepa_trade/technical_weekly.py, sepa/trend.py)*)
(* and the screening loops that drive them (sepa/pipeline/weekly.py,       *)
(* sepa_trade/pipeline/screener.py, scripts/auto_bot.py,                   *)
(* scripts/generate_weekly_signals.py, scripts/batch_backtest.py).         *)
(*                                                                         *)
(* Numbers.  The code computes in IEEE doubles; the model computes in      *)
(* exact rationals [nan, num, den] with den > 0, and NaN is the value with *)
(* nan = TRUE.  Every comparison with NaN is FALSE, as in the code.        *)
(* Rounding of doubles is not modelled.                                    *)
(*                                                                         *)
(* Bar series.  A close series is a sequence of integer prices, oldest     *)
(* first.  The series the model feeds to the code are ramps: a start       *)
(* price, a step per bar, and a last bar set on its own (the shape of the  *)
(* repository's test helper create_passing_df and of the edits its tests   *)
(* make to the final bar).  All series of one ranking batch end at the     *)
(* same as-of bar and share one calendar, so pandas aligns them on the     *)
(* right.                                                                  *)
(***************************************************************************)
EXTENDS Integers, Sequences, FiniteSets, TLC

\* ------------------------------------------------------------------------
\* Bounds of the model
\* ------------------------------------------------------------------------
MaxLookback == 2
MaxPrice == 2

\* The longest close series of the ranking specification: one bar more than
\* the longest lookback needs, so that every length around lookback+1 occurs.
MaxLen == MaxLookback + 1

Universe == {"AAA", "BBB", "CCC"}

\* ------------------------------------------------------------------------
\* Numbers
\* ------------------------------------------------------------------------
NaN == [nan |-> TRUE, num |-> 0, den |-> 1]

Q(n, d) == [nan |-> FALSE, num |-> n, den |-> d]

IsNaN(x) == x.nan

\* x < y, x <= y, x = y on doubles: FALSE as soon as one side is NaN.
Lt(x, y) == ~x.nan /\ ~y.nan /\ x.num * y.den < y.num * x.den

Le(x, y) == ~x.nan /\ ~y.nan /\ x.num * y.den <= y.num * x.den

Eq(x, y) == ~x.nan /\ ~y.nan /\ x.num * y.den = y.num * x.den

\* ------------------------------------------------------------------------
\* Bar series
\* ------------------------------------------------------------------------
\* A ramp of n closes: start, start+step, ..., and the final close `last`.
Ramp(n, start, step, last) ==
    [i \in 1..n |-> IF i = n THEN last ELSE start + step * (i - 1)]

Closes(d) == Ramp(d.n, d.start, d.step, d.last)

Desc(n, start, step, last) == [n |-> n, start |-> start, step |-> step, last |-> last]

\* ------------------------------------------------------------------------
\* sepa_trade/rs.py
\* ------------------------------------------------------------------------
\* calc_percent_return(close, lookback): the result, or a raised ValueError.
calc_percent_return(close, lookback) ==
    IF Len(close) < lookback + 1
    THEN [raised |-> TRUE, value |-> NaN]
    ELSE LET past_price == close[Len(close) - lookback]
             latest_price == close[Len(close)]
         IN  IF past_price <= 0
             THEN [raised |-> FALSE, value |-> NaN]
             ELSE [raised |-> FALSE,
                   value |-> Q((latest_price - past_price) * 100, past_price)]

\* RankPct100 with rank(method="min"): a tie takes its lowest rank.
RankPct100_min(returns, valid, t) ==
    LET less == Cardinality({u \in valid : Lt(returns[u], returns[t])})
    IN  Q(100 * (less + 1), Cardinality(valid))

\* valid.rank(pct=True) * 100 for one ticker of `valid`: the average of the
\* ranks its return spans, over the number of valid returns, times 100.
RankPct100(returns, valid, t) ==
    LET less == Cardinality({u \in valid : Lt(returns[u], returns[t])})
        same == Cardinality({u \in valid : Eq(returns[u], returns[t])})
    IN  Q(100 * (2 * less + same + 1), 2 * Cardinality(valid))

calc_rs_rating(percent_returns) ==
    LET valid == {t \in DOMAIN percent_returns : ~IsNaN(percent_returns[t])}
    IN  [t \in DOMAIN percent_returns |->
            IF t \in valid THEN RankPct100(percent_returns, valid, t) ELSE NaN]

\* pd.concat(close_dict, axis=1): one column per ticker over the union of the
\* bars; a ticker with a shorter history has NaN in the leading rows.
NumRows(close_dict) ==
    LET lens == {Len(close_dict[t]) : t \in DOMAIN close_dict}
    IN  CHOOSE m \in lens : \A k \in lens : k <= m

concat(close_dict) ==
    LET nrows == NumRows(close_dict)
    IN  [columns |-> DOMAIN close_dict,
         nrows |-> nrows,
         at |-> [t \in DOMAIN close_dict |->
                    [row \in 1..nrows |->
                        LET pad == nrows - Len(close_dict[t])
                        IN  IF row > pad THEN Q(close_dict[t][row - pad], 1) ELSE NaN]]]

\* dropna(axis="columns", thresh=...): the columns with at least `thresh`
\* values that are not NaN.
dropna_columns(frame, thresh) ==
    {t \in frame.columns :
        Cardinality({r \in 1..frame.nrows : ~IsNaN(frame.at[t][r])}) >= thresh}

\* GuardPast with the guard `past_prices < 0`: a base price of 0 is kept.
GuardPast_strict(p) == IF Lt(p, Q(0, 1)) THEN NaN ELSE p

\* past_prices[past_prices <= 0] = NaN
GuardPast(p) == IF Le(p, Q(0, 1)) THEN NaN ELSE p

\* (latest_prices / past_prices - 1) * 100
PctReturn(latest, past) ==
    IF IsNaN(latest) \/ IsNaN(past)
    THEN NaN
    ELSE Q((latest.num - past.num) * 100, past.num)

compute_rs_universe(close_dict, lookback) ==
    IF DOMAIN close_dict = {}
    THEN \* pd.concat of no objects raises ValueError
         [raised |-> TRUE, scores |-> [t \in {} |-> NaN]]
    ELSE LET all_closes == concat(close_dict)
             valid_closes == dropna_columns(all_closes, lookback + 1)
         IN  IF valid_closes = {} \/ all_closes.nrows = 0
             THEN [raised |-> FALSE, scores |-> [t \in all_closes.columns |-> NaN]]
             ELSE LET past_prices ==
                          [t \in valid_closes |->
                              GuardPast(all_closes.at[t][all_closes.nrows - lookback])]
                      latest_prices ==
                          [t \in valid_closes |-> all_closes.at[t][all_closes.nrows]]
                      pct_returns ==
                          [t \in valid_closes |->
                              PctReturn(latest_prices[t], past_prices[t])]
                      rs == calc_rs_rating(pct_returns)
                  IN  [raised |-> FALSE,
                       scores |-> [t \in all_closes.columns |->
                                      IF t \in valid_closes THEN rs[t] ELSE NaN]]

\* ------------------------------------------------------------------------
\* Rolling statistics of pandas: NaN until the window is full.
\* ------------------------------------------------------------------------
RECURSIVE SumRange(_, _, _)
SumRange(c, lo, hi) ==
    IF lo > hi THEN 0
    ELSE IF lo = hi THEN c[lo]
    ELSE LET mid == (lo + hi) \div 2
         IN  SumRange(c, lo, mid) + SumRange(c, mid + 1, hi)

\* close.rolling(w).mean() at bar i
RollingMean(c, w, i) ==
    IF i < w \/ i > Len(c) THEN NaN ELSE Q(SumRange(c, i - w + 1, i), w)

\* close.rolling(w).max() and .min() at bar i
RollingMax(c, w, i) ==
    IF i < w \/ i > Len(c)
    THEN NaN
    ELSE LET win == {c[j] : j \in (i - w + 1)..i}
         IN  Q(CHOOSE m \in win : \A x \in win : x <= m, 1)

RollingMin(c, w, i) ==
    IF i < w \/ i > Len(c)
    THEN NaN
    ELSE LET win == {c[j] : j \in (i - w + 1)..i}
         IN  Q(CHOOSE m \in win : \A x \in win : m <= x, 1)

\* PctOf without the factor 100: the distance as a fraction, not a percentage.
PctOf_fraction(a, b) ==
    IF IsNaN(a) \/ IsNaN(b)
    THEN NaN
    ELSE LET diff == a.num * b.den - b.num * a.den
         IN  IF b.num = 0
             THEN IF diff = 0 THEN NaN ELSE Q(IF diff > 0 THEN 1 ELSE -1, 0)
             ELSE IF b.num > 0
                  THEN Q(diff, b.num * a.den)
                  ELSE Q(-diff, -(b.num * a.den))

\* (a - b) / b * 100 on doubles: a zero divisor gives +inf, -inf or NaN (numpy
\* warns, it does not raise).  An infinity is the value with den = 0.
PctOf(a, b) ==
    IF IsNaN(a) \/ IsNaN(b)
    THEN NaN
    ELSE LET diff == a.num * b.den - b.num * a.den
         IN  IF b.num = 0
             THEN IF diff = 0 THEN NaN ELSE Q(IF diff > 0 THEN 1 ELSE -1, 0)
             ELSE IF b.num > 0
                  THEN Q(diff * 100, b.num * a.den)
                  ELSE Q(-(diff * 100), -(b.num * a.den))

\* The long-MA condition as a comparison of the two ends: the rolling mean at
\* the last bar is higher than it was `lookback` bars earlier.
TailIsHigherThanStart(c, w, lookback) ==
    Lt(RollingMean(c, w, Len(c) - lookback), RollingMean(c, w, Len(c)))

\* series.iloc[-lookback:].is_monotonic_increasing on the values of a rolling
\* mean that are not NaN (bars w..n): no value is below the one before it.
\* iloc[-0:] is the whole series.
TailIsMonotonicIncreasing(c, w, lookback) ==
    LET n == Len(c)
        count == IF n >= w THEN n - w + 1 ELSE 0
        first == IF lookback = 0 THEN w ELSE n - lookback + 1
    IN  IF count < lookback
        THEN FALSE
        ELSE \A k \in first..(n - 1) :
                Le(RollingMean(c, w, k), RollingMean(c, w, k + 1))

\* The arguments of one call of passes(): which keywords the caller gives, and
\* their values.
Args(has_rs, rs, has_pct, low, high, lookback) ==
    [has_rs |-> has_rs, rs_rating |-> rs, has_pct |-> has_pct,
     pct_from_low |-> low, pct_from_high |-> high, lookback |-> lookback]

\* ------------------------------------------------------------------------
\* sepa_trade/technical_weekly.py
\* ------------------------------------------------------------------------
_ma40w_rising(c, lookback) == TailIsMonotonicIncreasing(c, 40, lookback)

\* WeeklyTrendTemplate(price_df).passes(rs_rating, pct_from_low, pct_from_high,
\* ma40w_lookback): "pass", "fail" or "raise".
WeeklyTrendTemplate_passes(c, args) ==
    IF ~args.has_rs
    THEN "raise"        \* TypeError: rs_rating is a required argument
    ELSE IF Len(c) = 0
    THEN "raise"        \* IndexError: df.iloc[-1] of an empty frame
    ELSE LET n == Len(c)
             close == Q(c[n], 1)
             MA10W == RollingMean(c, 10, n)
             MA30W == RollingMean(c, 30, n)
             MA40W == RollingMean(c, 40, n)
             rolling_high == RollingMax(c, 52, n)
             rolling_low == RollingMin(c, 52, n)
             pct_from_low ==
                 IF args.has_pct THEN args.pct_from_low ELSE PctOf(close, rolling_low)
             pct_from_high ==
                 IF args.has_pct
                 THEN args.pct_from_high
                 ELSE IF IsNaN(rolling_high) THEN NaN
                      ELSE LET r == PctOf(close, rolling_high)
                           IN  IF IsNaN(r) THEN NaN ELSE Q(-r.num, r.den)
             conditions ==
                 /\ Lt(MA30W, close) /\ Lt(Q(0, 1), MA30W)
                 /\ Lt(MA40W, close) /\ Lt(Q(0, 1), MA40W)
                 /\ Lt(MA40W, MA30W)
                 /\ _ma40w_rising(c, args.lookback)
                 /\ Lt(MA30W, MA10W) /\ Lt(MA40W, MA10W)
                 /\ Lt(MA10W, close)
                 /\ Le(Q(30, 1), pct_from_low)
                 /\ Le(pct_from_high, Q(25, 1))
                 /\ Le(Q(70, 1), args.rs_rating)
         IN  IF conditions THEN "pass" ELSE "fail"

\* ------------------------------------------------------------------------
\* sepa_trade/technical.py
\* ------------------------------------------------------------------------
_ma200_is_rising(c, lookback) == TailIsMonotonicIncreasing(c, 200, lookback)

\* TrendTemplate(price_df).passes(pct_from_low, pct_from_high, ma200_lookback):
\* "pass", "fail" or "raise".  The method has no rs_rating parameter.
TrendTemplate_passes(c, args) ==
    IF args.has_rs
    THEN "raise"        \* TypeError: unexpected keyword argument 'rs_rating'
    ELSE IF Len(c) < 252
    THEN "fail"
    ELSE LET n == Len(c)
             close == Q(c[n], 1)
             MA50 == RollingMean(c, 50, n)
             MA150 == RollingMean(c, 150, n)
             MA200 == RollingMean(c, 200, n)
             rolling_high == RollingMax(c, 252, n)
             rolling_low == RollingMin(c, 252, n)
             guard == ~args.has_pct /\ (Le(rolling_low, Q(0, 1)) \/ Le(rolling_high, Q(0, 1)))
             pct_from_low ==
                 IF args.has_pct THEN args.pct_from_low ELSE PctOf(close, rolling_low)
             pct_from_high ==
                 IF args.has_pct
                 THEN args.pct_from_high
                 ELSE LET r == PctOf(close, rolling_high)
                      IN  IF IsNaN(r) THEN NaN ELSE Q(-r.num, r.den)
             conditions ==
                 /\ Lt(MA150, close) /\ Lt(MA200, close)
                 /\ Lt(MA200, MA150)
                 /\ _ma200_is_rising(c, args.lookback)
                 /\ Lt(MA150, MA50) /\ Lt(MA200, MA50)
                 /\ Lt(MA50, close)
                 /\ Le(Q(30, 1), pct_from_low)
                 /\ Le(pct_from_high, Q(25, 1))
         IN  IF guard THEN "fail" ELSE IF conditions THEN "pass" ELSE "fail"

\* ------------------------------------------------------------------------
\* State
\* ------------------------------------------------------------------------
VARIABLES
    \* the ranker on its own
    rs_pc, rs_dict, rs_lookback, rs_out,
    \* the trend templates on their own
    tt_pc, tt_close, tt_rating, tt_weekly, tt_daily,
    \* auto_bot.main and SepaScreener.screen
    bot_prog,           \* "auto_bot" or "screener": which of the two runs
    bot_pc,             \* where the run is
    bot_feed,           \* ticker -> what get_daily returns for it
    ohlcv_data,         \* ticker -> loaded bars (price_data of the screener)
    rs_scores,          \* the result of compute_rs_universe
    bot_i,              \* position of the entry loop in the ticker list
    bot_seen,           \* tickers whose loop body has run
    bot_calls,          \* every call of a trend template made so far
    entry_candidates,   \* orders proposed (winners of the screener)
    bot_error,          \* the exception that ended the run, or "none"
    \* sepa/pipeline/weekly.py and scripts/generate_weekly_signals.py
    wk_prog,            \* "screen" or "generate": which caller runs
    wk_pc,              \* where the caller is
    wk_cfg,             \* the `sepa:` section of config.yaml
    STEP_MODE,          \* weekly.STEP_MODE, set by the caller before the run
    wk_run,             \* number of runs (screen calls, weekly cycles) begun
    wk_i,               \* position of the ticker loop of this run
    counter,            \* weekly.counter, the module-level Counter
    wk_rows,            \* rows, results: what analyze_one_asof returned this run
    wk_last,            \* the last call of analyze_one_asof: its facts, its outcome
    wk_hits,            \* the symbols screen() returned, in order
    holding,            \* generate_weekly_signals: symbols held
    records,            \* generate_weekly_signals: entry and exit records
    \* scripts/batch_backtest.py
    bb_pc,              \* where main() is
    bb_feed,            \* ticker -> what load_daily, check_today and Backtest give
    bb_next,            \* number of tasks handed to the pool
    bb_worker,          \* worker -> its copy of the three module globals
    bb_by,              \* ticker -> the worker that ran it
    stage2_pass, daily_pass, vcp_pass,   \* the module globals of the parent
    bb_results,         \* ticker -> the dict run_backtest returned
    bb_out              \* what main() printed at its end

VARIABLES
    \* the long-MA condition on its own
    mr_series,          \* the close series given to the three evaluators
    mr_lookback,        \* the lookback argument of the two templates
    mr_weekly,          \* result of WeeklyTrendTemplate._ma40w_rising
    mr_daily,           \* result of TrendTemplate._ma200_is_rising
    mr_trend            \* sma200_rising of trend_template at the last row

VARIABLES
    \* a template on a linearly rising series and on the same series with its last close moved
    id_kind,            \* "weekly" or "daily": which template is called
    id_series,          \* the rising series
    id_rating,          \* the RS rating given to the weekly template
    id_result,          \* passes() on the series
    id_moved            \* passes() on the series with its last close at 0.9 x short MA

VARIABLES
    \* VCPStrategy.check_today on its own
    vc_body,            \* the bars before the final bar
    vc_final,           \* two final bars, "a" and "b", for the same body
    vc_out              \* what check_today returned for each of the two

VARIABLES
    \* sizing an order from a BreakoutSignal, at each of its three sites
    sz_sig,             \* the BreakoutSignal
    sz_equity,          \* args.cash of auto_bot, self.equity of the backtests
    sz_out              \* per site: what became of the signal

VARIABLES
    \* ExitStrategy on its own
    ex_df,              \* the frame handed to ExitStrategy
    ex_entry,           \* entry_price
    ex_state,           \* "new", "built" or "raised" (ValueError)
    ex_atr_trail,       \* what atr_trail() returned, and by which return
    ex_ema_cross        \* what ema_cross() returned, and by which return

VARIABLES
    \* the exit loop of auto_bot.main
    xc_positions,       \* what tm.api.list_positions() returned
    xc_pc,              \* "start", "loop" or "done"
    xc_i,               \* the position the loop is at
    xc_exits,           \* the symbols tm.exit_trade was called with, in order
    xc_requests         \* the cancel and close requests sent to the broker

VARIABLES
    \* an evaluator built on a caller's frame and asked again and again
    pu_kind,            \* "vcp", "exit", "trend" or "weekly"
    pu_frames,          \* the frame objects: the caller's and the evaluator's own
    pu_ref,             \* the frame self.df refers to
    pu_built,           \* how many evaluators were built on the caller's frame
    pu_results          \* what the check methods returned, call after call

VARIABLES
    \* WebullClient.place_orders_from_csv
    wb_csv,             \* the CSV: whether it has the price columns, and its rows
    wb_paper,           \* WebullClient(paper=...)
    wb_dry_run,         \* place_orders_from_csv(dry_run=...)
    wb_pc,              \* "call", "rows", "returned" or "raised"
    wb_results,         \* the results list
    wb_sent             \* how many times _send_order was called

VARIABLES
    \* sepa.patterns.vcp_mask
    mk_df,              \* the bars of df: High and Low
    mk_args,            \* lookback, min_contractions, ratio, price_near_high_pct
    mk_pc,              \* "call", "loop" or "returned"
    mk_i,               \* how many bars the loop has passed
    prev_peak,          \* prev_peak
    running,            \* running
    contr_cnt,          \* contr_cnt, as far as it is written
    mk_mask             \* the Series returned

VARIABLES
    \* scripts/generate_weekly_signals.py on its own
    sg_tickers,         \* tickers, as the command line or the universe gives them
    sg_pc,              \* "loop", "csv_saved" or "no_csv"
    sg_week,            \* how many Fridays the loop has passed
    sg_passed,          \* the symbols analyze_one_asof returned a row for, last week
    sg_holding,         \* holding
    sg_records          \* the rows of records, in order

rsVars == <<rs_pc, rs_dict, rs_lookback, rs_out>>

ttVars == <<tt_pc, tt_close, tt_rating, tt_weekly, tt_daily>>

botVars == <<bot_prog, bot_pc, bot_feed, ohlcv_data, rs_scores, bot_i, bot_seen,
             bot_calls, entry_candidates, bot_error>>

wkVars == <<wk_prog, wk_pc, wk_cfg, STEP_MODE, wk_run, wk_i, counter, wk_rows,
            wk_last, wk_hits, holding, records>>

bbVars == <<bb_pc, bb_feed, bb_next, bb_worker, bb_by, stage2_pass, daily_pass,
            vcp_pass, bb_results, bb_out>>

mrVars == <<mr_series, mr_lookback, mr_weekly, mr_daily, mr_trend>>

idVars == <<id_kind, id_series, id_rating, id_result, id_moved>>

vcVars == <<vc_body, vc_final, vc_out>>

szVars == <<sz_sig, sz_equity, sz_out>>

exVars == <<ex_df, ex_entry, ex_state, ex_atr_trail, ex_ema_cross>>

xcVars == <<xc_positions, xc_pc, xc_i, xc_exits, xc_requests>>

puVars == <<pu_kind, pu_frames, pu_ref, pu_built, pu_results>>

wbVars == <<wb_csv, wb_paper, wb_dry_run, wb_pc, wb_results, wb_sent>>

mkVars == <<mk_df, mk_args, mk_pc, mk_i, prev_peak, running, contr_cnt, mk_mask>>

sgVars == <<sg_tickers, sg_pc, sg_week, sg_passed, sg_holding, sg_records>>

vars == <<rsVars, ttVars, botVars, wkVars, bbVars, mrVars, idVars, vcVars, szVars, exVars, xcVars, puVars, wbVars, mkVars, sgVars>>

\* What each part of the program leaves alone.
NotRs == <<ttVars, botVars, wkVars, bbVars, mrVars, idVars, vcVars, szVars, exVars, xcVars, puVars, wbVars, mkVars, sgVars>>

NotTt == <<rsVars, botVars, wkVars, bbVars, mrVars, idVars, vcVars, szVars, exVars, xcVars, puVars, wbVars, mkVars, sgVars>>

NotBot == <<rsVars, ttVars, wkVars, bbVars, mrVars, idVars, vcVars, szVars, exVars, xcVars, puVars, wbVars, mkVars, sgVars>>

NotWk == <<rsVars, ttVars, botVars, bbVars, mrVars, idVars, vcVars, szVars, exVars, xcVars, puVars, wbVars, mkVars, sgVars>>

NotBb == <<rsVars, ttVars, botVars, wkVars, mrVars, idVars, vcVars, szVars, exVars, xcVars, puVars, wbVars, mkVars, sgVars>>

NotMr == <<rsVars, ttVars, botVars, wkVars, bbVars, idVars, vcVars, szVars, exVars, xcVars, puVars, wbVars, mkVars, sgVars>>

NotId == <<rsVars, ttVars, botVars, wkVars, bbVars, mrVars, vcVars, szVars, exVars, xcVars, puVars, wbVars, mkVars, sgVars>>

NotVc == <<rsVars, ttVars, botVars, wkVars, bbVars, mrVars, idVars, szVars, exVars, xcVars, puVars, wbVars, mkVars, sgVars>>

NotSz == <<rsVars, ttVars, botVars, wkVars, bbVars, mrVars, idVars, vcVars, exVars, xcVars, puVars, wbVars, mkVars, sgVars>>

NotEx == <<rsVars, ttVars, botVars, wkVars, bbVars, mrVars, idVars, vcVars, szVars, xcVars, puVars, wbVars, mkVars, sgVars>>

NotXc == <<rsVars, ttVars, botVars, wkVars, bbVars, mrVars, idVars, vcVars, szVars, exVars, puVars, wbVars, mkVars, sgVars>>

NotPu == <<rsVars, ttVars, botVars, wkVars, bbVars, mrVars, idVars, vcVars, szVars, exVars, xcVars, wbVars, mkVars, sgVars>>

NotWb == <<rsVars, ttVars, botVars, wkVars, bbVars, mrVars, idVars, vcVars, szVars, exVars, xcVars, puVars, mkVars, sgVars>>

NotMk == <<rsVars, ttVars, botVars, wkVars, bbVars, mrVars, idVars, vcVars, szVars, exVars, xcVars, puVars, wbVars, sgVars>>

NotSg == <<rsVars, ttVars, botVars, wkVars, bbVars, mrVars, idVars, vcVars, szVars, exVars, xcVars, puVars, wbVars, mkVars>>

NoScores == [raised |-> FALSE, scores |-> [t \in {} |-> NaN]]

NoCall == [call |-> "none", result |-> "none"]

\* A part of the program that a specification does not run.
RsOff ==
    /\ rs_pc = "off"
    /\ rs_dict = [t \in {} |-> Desc(0, 0, 0, 0)]
    /\ rs_lookback = 0
    /\ rs_out = NoScores

TtOff ==
    /\ tt_pc = "off"
    /\ tt_close = Desc(0, 0, 0, 0)
    /\ tt_rating = NaN
    /\ tt_weekly = NoCall
    /\ tt_daily = NoCall

BotOff ==
    /\ bot_prog = "off"
    /\ bot_pc = "off"
    /\ bot_feed = [t \in {} |-> 0]
    /\ ohlcv_data = [t \in {} |-> 0]
    /\ rs_scores = NoScores
    /\ bot_i = 0
    /\ bot_seen = {}
    /\ bot_calls = {}
    /\ entry_candidates = <<>>
    /\ bot_error = "none"

NoWkCall == [symbol |-> "none", liquid |-> FALSE,
             conds |-> FALSE, growth |-> FALSE, key |-> "none", returned |-> FALSE]

WkOff ==
    /\ wk_prog = "off"
    /\ wk_pc = "off"
    /\ wk_cfg = [min_avg_volume |-> 0, min_price |-> 0, enabled |-> TRUE,
                 eps_g_min |-> 20, rev_g_min |-> 20]
    /\ STEP_MODE = "all"
    /\ wk_run = 0
    /\ wk_i = 0
    /\ counter = [k \in {} |-> 0]
    /\ wk_rows = <<>>
    /\ wk_last = NoWkCall
    /\ wk_hits = <<>>
    /\ holding = {}
    /\ records = <<>>

BbOff ==
    /\ bb_pc = "off"
    /\ bb_feed = [t \in {} |-> 0]
    /\ bb_next = 0
    /\ bb_worker = [w \in {} |-> 0]
    /\ bb_by = [t \in {} |-> 0]
    /\ stage2_pass = 0
    /\ daily_pass = 0
    /\ vcp_pass = 0
    /\ bb_results = [t \in {} |-> 0]
    /\ bb_out = "none"

MrOff ==
    /\ mr_series = [n |-> 0, start |-> 0, step |-> 0, dip_at |-> -1, dip_to |-> 0]
    /\ mr_lookback = 0
    /\ mr_weekly = "none"
    /\ mr_daily = "none"
    /\ mr_trend = "none"

IdOff ==
    /\ id_kind = "off"
    /\ id_series = Desc(0, 0, 0, 0)
    /\ id_rating = NaN
    /\ id_result = "none"
    /\ id_moved = "none"

VcOff ==
    /\ vc_body = [n |-> 0, r3 |-> 0, r2 |-> 0, r1 |-> 0, spike |-> 0]
    /\ vc_final = [x \in {} |-> 0]
    /\ vc_out = [x \in {} |-> 0]

SzOff ==
    /\ sz_sig = [breakout_price |-> 0, atr |-> NaN]
    /\ sz_equity = 0
    /\ sz_out = [x \in {} |-> 0]

ExOff ==
    /\ ex_df = [n |-> 0, prev |-> 0, last |-> 0, drop |-> 0, shape |-> "off",
             validity |-> "off"]
    /\ ex_entry = 0
    /\ ex_state = "off"
    /\ ex_atr_trail = [called |-> FALSE, value |-> FALSE, branch |-> "off"]
    /\ ex_ema_cross = [called |-> FALSE, value |-> FALSE, branch |-> "off"]

XcOff ==
    /\ xc_positions = <<>>
    /\ xc_pc = "off"
    /\ xc_i = 0
    /\ xc_exits = <<>>
    /\ xc_requests = <<>>

PuOff ==
    /\ pu_kind = "off"
    /\ pu_frames = [x \in {} |-> 0]
    /\ pu_ref = "off"
    /\ pu_built = 0
    /\ pu_results = <<>>

WbOff ==
    /\ wb_csv = [priced |-> FALSE, rows |-> <<>>]
    /\ wb_paper = FALSE
    /\ wb_dry_run = FALSE
    /\ wb_pc = "off"
    /\ wb_results = <<>>
    /\ wb_sent = 0

MkOff ==
    /\ mk_df = <<>>
    /\ mk_args = [lookback |-> 0, min_contractions |-> 0, ratio |-> NaN, price_near_high_pct |-> 0]
    /\ mk_pc = "off"
    /\ mk_i = 0
    /\ prev_peak = NaN
    /\ running = 0
    /\ contr_cnt = <<>>
    /\ mk_mask = <<>>

SgOff ==
    /\ sg_tickers = <<>>
    /\ sg_pc = "off"
    /\ sg_week = 0
    /\ sg_passed = {}
    /\ sg_holding = {}
    /\ sg_records = <<>>

\* ------------------------------------------------------------------------
\* The ranker on its own: every mapping of a part of the universe to a short
\* close series, every lookback.
\* ------------------------------------------------------------------------
\* Close series of 0..MaxLen bars: flat at `start`, the final bar at `last`.
\* The base price may be 0 (a non-positive base); the latest price is positive.
RsSeries ==
    {d \in {Desc(n, s, 0, l) : n \in 0..MaxLen, s \in 0..MaxPrice, l \in 1..MaxPrice} :
        (d.n = 0 => d.last = 1) /\ (d.n <= 1 => d.start = 0)}

RsDicts == UNION {[keys -> RsSeries] : keys \in SUBSET Universe}

RsInit ==
    /\ rs_pc = "input"
    /\ rs_dict \in RsDicts
    /\ rs_lookback \in 1..MaxLookback
    /\ rs_out = NoScores
    /\ TtOff /\ BotOff /\ WkOff /\ BbOff /\ MrOff /\ IdOff /\ VcOff /\ SzOff /\ ExOff /\ XcOff /\ PuOff /\ WbOff /\ MkOff /\ SgOff

\* rs = compute_rs_universe({tic: df["Close"], ...}, lookback)
RsCompute ==
    /\ rs_pc = "input"
    /\ rs_out' = compute_rs_universe([t \in DOMAIN rs_dict |-> Closes(rs_dict[t])],
                                     rs_lookback)
    /\ rs_pc' = "done"
    /\ UNCHANGED <<rs_dict, rs_lookback, NotRs>>

RsNext == RsCompute

SpecRS == RsInit /\ [][RsNext]_vars

\* ------------------------------------------------------------------------
\* The trend templates on their own: one close series and one RS rating,
\* handed to the weekly and to the daily template the way each of their
\* callers hands them over.
\* ------------------------------------------------------------------------
\* Lengths around every window of the two templates.
TtLengths == {0, 1, 39, 40, 43, 51, 52, 60, 251, 252, 260}

\* The last close as a percentage of the close the ramp would end at.
TtLastPct == {100, 70}

\* The shapes: rising from 100, flat, falling, and rising from a price of 0.
TtSeries ==
    {Desc(n, sh[1], sh[2], ((sh[1] + sh[2] * (n - 1)) * pct) \div 100) :
        n \in TtLengths, sh \in {<<100, 2>>, <<100, 0>>, <<400, -1>>, <<0, 2>>},
        pct \in TtLastPct}

TtRatings == {NaN, Q(50, 1), Q(69, 1), Q(70, 1), Q(80, 1)}

TtInit ==
    /\ tt_pc = "input"
    /\ tt_close \in TtSeries
    /\ tt_rating \in TtRatings
    /\ tt_weekly = NoCall
    /\ tt_daily = NoCall
    /\ RsOff /\ BotOff /\ WkOff /\ BbOff /\ MrOff /\ IdOff /\ VcOff /\ SzOff /\ ExOff /\ XcOff /\ PuOff /\ WbOff /\ MkOff /\ SgOff

\* auto_bot.main: WeeklyTrendTemplate(weekly_df).passes(rs_rating=rs_rating)
TtWeeklyAsBot ==
    /\ tt_pc = "input"
    /\ tt_weekly = NoCall
    /\ tt_weekly' =
          [call |-> "auto_bot",
           result |-> WeeklyTrendTemplate_passes(
                          Closes(tt_close), Args(TRUE, tt_rating, FALSE, NaN, NaN, 4))]
    /\ UNCHANGED <<tt_pc, tt_close, tt_rating, tt_daily, NotTt>>

\* SepaScreener.screen: WeeklyTrendTemplate(weekly_df).passes()
TtWeeklyAsScreener ==
    /\ tt_pc = "input"
    /\ tt_weekly = NoCall
    /\ tt_weekly' =
          [call |-> "screener",
           result |-> WeeklyTrendTemplate_passes(
                          Closes(tt_close), Args(FALSE, NaN, FALSE, NaN, NaN, 4))]
    /\ UNCHANGED <<tt_pc, tt_close, tt_rating, tt_daily, NotTt>>

\* auto_bot.main: pct_low and pct_high over W52 = 252 bars, then
\* TrendTemplate(df).passes(rs_rating=..., pct_from_low=..., pct_from_high=...)
BotPctLow(c) == PctOf(Q(c[Len(c)], 1), RollingMin(c, 252, Len(c)))

BotPctHigh(c) ==
    LET r == PctOf(Q(c[Len(c)], 1), RollingMax(c, 252, Len(c)))
    IN  IF IsNaN(r) THEN NaN ELSE Q(-r.num, r.den)

TtDailyAsBot ==
    /\ tt_pc = "input"
    /\ tt_daily = NoCall
    /\ Len(Closes(tt_close)) > 0
    /\ tt_daily' =
          [call |-> "auto_bot",
           result |-> TrendTemplate_passes(
                          Closes(tt_close),
                          Args(TRUE, tt_rating, TRUE, BotPctLow(Closes(tt_close)),
                               BotPctHigh(Closes(tt_close)), 30))]
    /\ UNCHANGED <<tt_pc, tt_close, tt_rating, tt_weekly, NotTt>>

\* SepaScreener.screen: TrendTemplate(daily_df).passes(ma200_lookback=30)
TtDailyAsScreener ==
    /\ tt_pc = "input"
    /\ tt_daily = NoCall
    /\ tt_daily' =
          [call |-> "screener",
           result |-> TrendTemplate_passes(
                          Closes(tt_close), Args(FALSE, NaN, FALSE, NaN, NaN, 30))]
    /\ UNCHANGED <<tt_pc, tt_close, tt_rating, tt_weekly, NotTt>>

TtNext ==
    \/ TtWeeklyAsBot
    \/ TtWeeklyAsScreener
    \/ TtDailyAsBot
    \/ TtDailyAsScreener

SpecTrend == TtInit /\ [][TtNext]_vars

\* ------------------------------------------------------------------------
\* sepa_trade/data_fetcher.py
\* ------------------------------------------------------------------------
\* to_weekly: resample("W-FRI") with Close -> "last".  Weeks have five bars
\* and the final bar closes a week; the oldest week may be partial.
to_weekly(c) ==
    LET n == Len(c)
        m == (n + 4) \div 5
    IN  [k \in 1..m |-> c[n - 5 * (m - k)]]

\* ------------------------------------------------------------------------
\* scripts/auto_bot.py and sepa_trade/pipeline/screener.py
\* ------------------------------------------------------------------------
TickerOrder == <<"AAA", "BBB", "CCC">>

\* What VCPStrategy(df_full).check_today() returns for a ticker's bars.  The
\* columns other than Close enter these two programs only through it.
NoSignal == [flag |-> FALSE, breakout_price |-> 0, atr |-> 0]

Signal(price, atr) == [flag |-> TRUE, breakout_price |-> price, atr |-> atr]

NoneFeed == [none |-> TRUE, close |-> Desc(0, 0, 0, 0), vcp |-> NoSignal, funda |-> FALSE]

Feed(d, vcp, funda) == [none |-> FALSE, close |-> d, vcp |-> vcp, funda |-> funda]

\* Daily close series of the feed: too short for auto_bot (252), 51 weeks
\* (253), and 60 weeks rising, flat at zero up to the last bar, and falling.
BotSeries ==
    {Desc(252, 100, 1, 351), Desc(253, 100, 1, 352), Desc(300, 100, 1, 399),
     Desc(300, 0, 0, 5), Desc(300, 400, -1, 101)}

BotFeeds(prog) ==
    {NoneFeed} \cup
    UNION {{Feed(d, v, f) :
               v \in IF prog = "auto_bot" THEN {NoSignal, Signal(d.last, 2)} ELSE {NoSignal},
               f \in IF prog = "screener" THEN BOOLEAN ELSE {FALSE}} : d \in BotSeries}

\* args.cash
Cash == 100000

BotInit ==
    /\ bot_prog \in {"auto_bot", "screener"}
    /\ bot_pc = "load"
    /\ bot_feed \in [Universe -> BotFeeds(bot_prog)]
    /\ ohlcv_data = [t \in {} |-> NoneFeed]
    /\ rs_scores = NoScores
    /\ bot_i = 1
    /\ bot_seen = {}
    /\ bot_calls = {}
    /\ entry_candidates = <<>>
    /\ bot_error = "none"
    /\ RsOff /\ TtOff /\ WkOff /\ BbOff /\ MrOff /\ IdOff /\ VcOff /\ SzOff /\ ExOff /\ XcOff /\ PuOff /\ WbOff /\ MkOff /\ SgOff

CloseDict(data) == [t \in DOMAIN data |-> Closes(data[t].close)]

\* The tickers of `data` in the order of the ticker list.
InOrder(keys) == SelectSeq(TickerOrder, LAMBDA t : t \in keys)

Call(tic, evaluator, rs, ready, result) ==
    [tic |-> tic, evaluator |-> evaluator, rs_nan |-> IsNaN(rs), rs_ready |-> ready,
     result |-> result]

\* auto_bot.main, part 1: load every ticker, keep those with W52 + 1 bars,
\* return if none is left, else rank the whole batch.
BotLoad ==
    /\ bot_prog = "auto_bot"
    /\ bot_pc = "load"
    /\ LET loaded == {t \in Universe :
                         ~bot_feed[t].none /\ bot_feed[t].close.n >= 252 + 1}
           data == [t \in loaded |-> bot_feed[t]]
       IN  IF loaded = {}
           THEN /\ bot_pc' = "returned"
                /\ UNCHANGED <<ohlcv_data, rs_scores>>
           ELSE /\ ohlcv_data' = data
                /\ rs_scores' = compute_rs_universe(CloseDict(data), 126)
                /\ bot_pc' = "entry"
    /\ UNCHANGED <<bot_prog, bot_feed, bot_i, bot_seen, bot_calls, entry_candidates,
                   bot_error, NotBot>>

\* The position sizing of the entry loop: risk_per_share = atr * 1.5, no
\* order if it is <= 0, else qty = max(int(cash * 0.0125 / risk_per_share), 1).
BotOrder(tic, sig) ==
    LET risk3 == sig.atr * 3        \* twice risk_per_share
    IN  IF risk3 <= 0
        THEN <<>>
        ELSE LET q == (Cash * 125 * 2) \div (10000 * risk3)
             IN  <<[symbol |-> tic,
                    qty |-> IF q > 1 THEN q ELSE 1,
                    entry_price |-> Q(sig.breakout_price, 1),
                    stop_price |-> Q(2 * sig.breakout_price - risk3, 2)]>>

\* auto_bot.main, one pass of the entry loop.  Nothing in the loop catches an
\* exception: a raise ends the program.
BotEntry ==
    /\ bot_prog = "auto_bot"
    /\ bot_pc = "entry"
    /\ bot_i <= Len(InOrder(DOMAIN ohlcv_data))
    /\ LET tic == InOrder(DOMAIN ohlcv_data)[bot_i]
           daily_series == Closes(ohlcv_data[tic].close)
           has_score == tic \in DOMAIN rs_scores.scores    \* rs_scores.get(tic) is not None
           rs_rating == rs_scores.scores[tic]
           weekly == WeeklyTrendTemplate_passes(
                         to_weekly(daily_series), Args(TRUE, rs_rating, FALSE, NaN, NaN, 4))
           daily == TrendTemplate_passes(
                        daily_series,
                        Args(TRUE, rs_rating, TRUE, BotPctLow(daily_series),
                             BotPctHigh(daily_series), 30))
           wcall == Call(tic, "weekly", rs_rating, bot_pc = "entry", weekly)
           dcall == Call(tic, "daily", rs_rating, bot_pc = "entry", daily)
           sig == ohlcv_data[tic].vcp
       IN  /\ bot_seen' = bot_seen \cup {tic}
           /\ IF ~has_score
              THEN /\ bot_i' = bot_i + 1
                   /\ UNCHANGED <<bot_pc, bot_calls, entry_candidates, bot_error>>
              ELSE IF weekly = "raise"
              THEN /\ bot_pc' = "aborted"
                   /\ bot_error' = "IndexError"
                   /\ bot_calls' = bot_calls \cup {wcall}
                   /\ UNCHANGED <<bot_i, entry_candidates>>
              ELSE IF weekly = "fail"
              THEN /\ bot_i' = bot_i + 1
                   /\ bot_calls' = bot_calls \cup {wcall}
                   /\ UNCHANGED <<bot_pc, entry_candidates, bot_error>>
              ELSE IF daily = "raise"
              THEN /\ bot_pc' = "aborted"
                   /\ bot_error' = "TypeError"
                   /\ bot_calls' = bot_calls \cup {wcall, dcall}
                   /\ UNCHANGED <<bot_i, entry_candidates>>
              ELSE /\ bot_i' = bot_i + 1
                   /\ bot_calls' = bot_calls \cup {wcall, dcall}
                   /\ entry_candidates' =
                         IF daily = "pass" /\ sig.flag
                         THEN entry_candidates \o BotOrder(tic, sig)
                         ELSE entry_candidates
                   /\ UNCHANGED <<bot_pc, bot_error>>
    /\ UNCHANGED <<bot_prog, bot_feed, ohlcv_data, rs_scores, NotBot>>

\* auto_bot.main after the entry loop: tm.enter_trade for every candidate,
\* then the exit phase.
BotEnterTrades ==
    /\ bot_prog = "auto_bot"
    /\ bot_pc = "entry"
    /\ bot_i > Len(InOrder(DOMAIN ohlcv_data))
    /\ bot_pc' = "exit"
    /\ UNCHANGED <<bot_prog, bot_feed, ohlcv_data, rs_scores, bot_i, bot_seen, bot_calls,
                   entry_candidates, bot_error, NotBot>>

\* SepaScreener._prepare_data with _fetch_all_prices: keep every ticker whose
\* frame is neither None nor empty, then rank.  A raise of the ranker is not
\* caught.
ScreenerPrepare ==
    /\ bot_prog = "screener"
    /\ bot_pc = "load"
    /\ LET loaded == {t \in Universe : ~bot_feed[t].none /\ bot_feed[t].close.n > 0}
           data == [t \in loaded |-> bot_feed[t]]
           rs == compute_rs_universe(CloseDict(data), 126)
       IN  /\ ohlcv_data' = data
           /\ rs_scores' = rs
           /\ bot_pc' = IF rs.raised THEN "aborted" ELSE "entry"
           /\ bot_error' = IF rs.raised THEN "ValueError" ELSE "none"
    /\ UNCHANGED <<bot_prog, bot_feed, bot_i, bot_seen, bot_calls, entry_candidates, NotBot>>

\* SepaScreener.screen, one pass of the loop over self.tickers.  The body is
\* inside try/except Exception: a raise skips the ticker.
ScreenerStep ==
    /\ bot_prog = "screener"
    /\ bot_pc = "entry"
    /\ bot_i <= Len(TickerOrder)
    /\ LET tic == TickerOrder[bot_i]
           skip == \/ tic \notin DOMAIN ohlcv_data
                   \/ tic \notin DOMAIN rs_scores.scores
                   \/ IsNaN(rs_scores.scores[tic])
           rs_rating == rs_scores.scores[tic]
           daily_df == Closes(ohlcv_data[tic].close)
           weekly == WeeklyTrendTemplate_passes(
                         to_weekly(daily_df), Args(FALSE, NaN, FALSE, NaN, NaN, 4))
           daily == TrendTemplate_passes(daily_df, Args(FALSE, NaN, FALSE, NaN, NaN, 30))
           wcall == Call(tic, "weekly", rs_rating, bot_pc = "entry", weekly)
           dcall == Call(tic, "daily", rs_rating, bot_pc = "entry", daily)
       IN  /\ bot_seen' = bot_seen \cup {tic}
           /\ bot_i' = bot_i + 1
           /\ IF skip \/ Lt(rs_rating, Q(70, 1))
              THEN UNCHANGED <<bot_calls, entry_candidates>>
              ELSE IF weekly # "pass"
              THEN /\ bot_calls' = bot_calls \cup {wcall}
                   /\ UNCHANGED entry_candidates
              ELSE IF Len(daily_df) < 252
              THEN /\ bot_calls' = bot_calls \cup {wcall}
                   /\ UNCHANGED entry_candidates
              ELSE /\ bot_calls' = bot_calls \cup {wcall, dcall}
                   /\ entry_candidates' =
                         IF daily = "pass" /\ ohlcv_data[tic].funda
                         THEN Append(entry_candidates, tic)
                         ELSE entry_candidates
    /\ UNCHANGED <<bot_prog, bot_pc, bot_feed, ohlcv_data, rs_scores, bot_error, NotBot>>

\* SepaScreener.screen returns the winners.
ScreenerReturn ==
    /\ bot_prog = "screener"
    /\ bot_pc = "entry"
    /\ bot_i > Len(TickerOrder)
    /\ bot_pc' = "returned"
    /\ UNCHANGED <<bot_prog, bot_feed, ohlcv_data, rs_scores, bot_i, bot_seen, bot_calls,
                   entry_candidates, bot_error, NotBot>>

BotNext ==
    \/ BotLoad
    \/ BotEntry
    \/ BotEnterTrades
    \/ ScreenerPrepare
    \/ ScreenerStep
    \/ ScreenerReturn

SpecBot == BotInit /\ [][BotNext]_vars

\* ------------------------------------------------------------------------
\* sepa/trend.py
\* ------------------------------------------------------------------------
\* x * a / b; NaN stays NaN
Times(x, a, b) == IF IsNaN(x) THEN NaN ELSE Q(x.num * a, x.den * b)

\* sma200 > sma200.shift(20) at the last row of c (line 27)
sma200_rising(c) == Lt(RollingMean(c, 200, Len(c) - 20), RollingMean(c, 200, Len(c)))

\* cond1 & ... & cond7 of trend_template at the last row of c (line 42), with
\* LOW_MULT = 1.05 = 21/20 and HIGH_RATIO = 0.55 = 11/20.  A comparison with a
\* rolling value that is not there yet (NaN) is False.
TrendConds(c) ==
    LET n == Len(c)
        close == Q(c[n], 1)
        sma50 == RollingMean(c, 50, n)
        sma150 == RollingMean(c, 150, n)
        sma200 == RollingMean(c, 200, n)
        rolling_high_52w == RollingMax(c, 52, n)
        rolling_low_52w == RollingMin(c, 52, n)
    IN  /\ Lt(sma150, close)
        /\ Lt(sma200, close)
        /\ Lt(sma150, sma50)
        /\ Lt(sma200, sma150)
        /\ sma200_rising(c)
        /\ Lt(Times(rolling_low_52w, 21, 20), close)
        /\ Le(Times(rolling_high_52w, 11, 20), close)

\* trend_template(df).iloc[-1]: the mask of line 42 is replaced at line 52 by a
\* Series that is True on every row.
trend_template(c) ==
    LET mask_42 == TrendConds(c)
        mask_52 == TRUE
    IN  mask_52

\* trend_template_ok(df).iloc[-1] on a frame with no "RS" column: the trend
\* mask alone.
trend_template_ok(c) == trend_template(c)

\* ------------------------------------------------------------------------
\* sepa/pipeline/weekly.py
\* ------------------------------------------------------------------------
MIN_WEEKS == 52

CounterKeys == {"no_first_date", "pre_ipo", "no_data", "short_history",
                "liquidity", "trend", "fund", "pass"}

\* What fetch_growth returns: None, or a dict of two growth rates, each a
\* number or NaN.
NoMetrics == [is_dict |-> FALSE, eps_g |-> NaN, rev_g |-> NaN]

Metrics(eps_g, rev_g) == [is_dict |-> TRUE, eps_g |-> eps_g, rev_g |-> rev_g]

is_growth_ok(metrics, cfg) ==
    IF ~cfg.enabled THEN TRUE
    ELSE IF ~metrics.is_dict THEN TRUE
    ELSE IF IsNaN(metrics.eps_g) \/ IsNaN(metrics.rev_g) THEN TRUE
    ELSE Le(Q(cfg.eps_g_min, 1), metrics.eps_g) /\ Le(Q(cfg.rev_g_min, 1), metrics.rev_g)

\* Daily bars yf.download may return for one ticker: none, 51 weeks, 52 weeks,
\* 220 weeks rising, 220 weeks falling, 52 weeks of a low-priced stock.
WkDaily ==
    {Desc(0, 0, 0, 0), Desc(255, 100, 1, 354), Desc(260, 100, 1, 359),
     Desc(1100, 100, 1, 1199), Desc(1100, 2000, -1, 901), Desc(260, 1, 0, 2)}

\* df_week of analyze_one_asof: the W-FRI resample of the daily bars.
df_week(d) == to_weekly(Closes(d))

\* What analyze_one_asof reads off the bars of one ticker.
WkFacts ==
    [d \in WkDaily |->
        LET w == df_week(d)
            n == Len(w)
        IN  [weeks |-> n,
             last_close |-> IF n = 0 THEN 0 ELSE w[n],
             conds |-> IF n = 0 THEN FALSE ELSE TrendConds(w),
             trend_ok |-> IF n = 0 THEN FALSE ELSE trend_template_ok(w),
             RS_26w |-> IF n < 26 THEN NaN ELSE Q(w[n], w[n - 25])]]

\* What the outside world gives one call of analyze_one_asof: no listing
\* date, a listing date after asof, or a listed ticker with its bars, its
\* average volume and its growth metrics.
Snap(first_date, daily, avg_vol20, metrics) ==
    [first_date |-> first_date, daily |-> daily, avg_vol20 |-> avg_vol20, metrics |-> metrics]

WkSnaps ==
    {Snap("none", Desc(0, 0, 0, 0), 0, NoMetrics),
     Snap("after", Desc(0, 0, 0, 0), 0, NoMetrics),
     Snap("ok", Desc(0, 0, 0, 0), 0, NoMetrics),
     Snap("ok", Desc(255, 100, 1, 354), 200000, Metrics(Q(30, 1), Q(30, 1))),
     Snap("ok", Desc(260, 1, 0, 2), 200000, Metrics(Q(30, 1), Q(30, 1)))}
    \cup {Snap("ok", d, 50000, Metrics(Q(30, 1), Q(30, 1))) :
            d \in {Desc(260, 100, 1, 359), Desc(1100, 100, 1, 1199)}}
    \cup {Snap("ok", d, 200000, m) :
            d \in {Desc(260, 100, 1, 359), Desc(1100, 100, 1, 1199), Desc(1100, 2000, -1, 901)},
            m \in {NoMetrics, Metrics(NaN, Q(30, 1)), Metrics(Q(10, 1), Q(30, 1)),
                   Metrics(Q(30, 1), Q(30, 1))}}

\* The `sepa:` section of config.yaml, with the fundamentals check on or off.
WkCfgs ==
    {[min_avg_volume |-> 100000, min_price |-> 5, enabled |-> e, eps_g_min |-> 20, rev_g_min |-> 20] :
        e \in BOOLEAN}

\* The result of one call: the counter it increments ("none" for no counter)
\* and whether it returns a row.
Outcome(key, returned) == [key |-> key, returned |-> returned]

analyze_one_asof(snap, cfg, step) ==
    LET f == WkFacts[snap.daily]
    IN  IF snap.first_date = "none" THEN Outcome("no_first_date", FALSE)
        ELSE IF snap.first_date = "after" THEN Outcome("pre_ipo", FALSE)
        ELSE IF snap.daily.n = 0 THEN Outcome("no_data", FALSE)
        ELSE IF f.weeks < MIN_WEEKS THEN Outcome("short_history", FALSE)
        ELSE IF snap.avg_vol20 < cfg.min_avg_volume THEN Outcome("liquidity", FALSE)
        ELSE IF f.last_close < cfg.min_price THEN Outcome("liquidity", FALSE)
        ELSE IF ~f.trend_ok THEN Outcome("trend", FALSE)
        ELSE IF step = "trend" THEN Outcome("none", TRUE)
        ELSE IF ~snap.metrics.is_dict \/ ~is_growth_ok(snap.metrics, cfg)
             THEN Outcome("fund", FALSE)
        ELSE IF step = "fund" THEN Outcome("none", TRUE)
        ELSE Outcome("pass", TRUE)

\* _analyze_one_from_df: the columns of the row that the callers use.
Row(tic, snap) == [symbol |-> tic, RS_26w |-> WkFacts[snap.daily].RS_26w]

\* The facts of a call that its outcome is to be judged by.
WkCall(tic, snap, cfg, out) ==
    LET f == WkFacts[snap.daily]
    IN  [symbol |-> tic,
         liquid |-> snap.avg_vol20 >= cfg.min_avg_volume /\ f.last_close >= cfg.min_price,
         conds |-> f.conds,
         growth |-> snap.metrics.is_dict /\ is_growth_ok(snap.metrics, cfg),
         key |-> out.key,
         returned |-> out.returned]

\* ------------------------------------------------------------------------
\* The callers of analyze_one_asof: weekly.screen, called again and again in
\* one process, and the weekly loop of scripts/generate_weekly_signals.py.
\* ------------------------------------------------------------------------
MaxRuns == 2

\* how many times the check methods of one evaluator are called
MaxCalls == 2

WkTickers == <<"AAA", "BBB">>

\* The module is imported: counter = Counter(), every count 0.
WkInit ==
    /\ wk_prog \in {"screen", "generate"}
    /\ wk_pc = "idle"
    /\ wk_cfg \in WkCfgs
    /\ STEP_MODE \in {"all", "trend", "fund"}
    /\ wk_run = 0
    /\ wk_i = 0
    /\ counter = [k \in CounterKeys |-> 0]
    /\ wk_rows = <<>>
    /\ wk_last = NoWkCall
    /\ wk_hits = <<>>
    /\ holding = {}
    /\ records = <<>>
    /\ RsOff /\ TtOff /\ BotOff /\ BbOff /\ MrOff /\ IdOff /\ VcOff /\ SzOff /\ ExOff /\ XcOff /\ PuOff /\ WbOff /\ MkOff /\ SgOff

\* screen() is called, or the next week of the loop begins: rows = [].
WkBegin ==
    /\ wk_pc = "idle"
    /\ wk_run < MaxRuns
    /\ wk_pc' = "run"
    /\ wk_run' = wk_run + 1
    /\ wk_i' = 0
    /\ wk_rows' = <<>>
    /\ UNCHANGED <<wk_prog, wk_cfg, STEP_MODE, counter, wk_last, wk_hits, holding,
                   records, NotWk>>

\* One pass of `for tic in tickers`: analyze_one_asof(tic, asof) and the
\* append of its row.
WkAnalyze ==
    /\ wk_pc = "run"
    /\ wk_i < Len(WkTickers)
    /\ \E snap \in WkSnaps :
          LET tic == WkTickers[wk_i + 1]
              out == analyze_one_asof(snap, wk_cfg, STEP_MODE)
          IN  /\ counter' = IF out.key = "none" THEN counter
                            ELSE [counter EXCEPT ![out.key] = @ + 1]
              /\ wk_rows' = IF out.returned THEN Append(wk_rows, Row(tic, snap))
                            ELSE wk_rows
              /\ wk_last' = WkCall(tic, snap, wk_cfg, out)
    /\ wk_i' = wk_i + 1
    /\ UNCHANGED <<wk_prog, wk_pc, wk_cfg, STEP_MODE, wk_run, wk_hits, holding,
                   records, NotWk>>

\* DataFrame(rows).sort_values("RS_26w", ascending=False): the positions of
\* rows in the sorted order, equal keys in their first order.
SortedByRS(rows) ==
    LET idx == 1..Len(rows)
    IN  CHOOSE s \in [idx -> idx] :
            /\ \A i, j \in idx : i # j => s[i] # s[j]
            /\ \A i, j \in idx :
                  i < j => \/ Lt(rows[s[j]].RS_26w, rows[s[i]].RS_26w)
                           \/ (Eq(rows[s[j]].RS_26w, rows[s[i]].RS_26w) /\ s[i] < s[j])

\* The end of screen(): the rows sorted by RS_26w, best first, cut at top_n.
WkScreenReturn ==
    /\ wk_prog = "screen"
    /\ wk_pc = "run"
    /\ wk_i = Len(WkTickers)
    /\ \E top_n \in {1, 10} :
          LET s == SortedByRS(wk_rows)
              k == IF Len(wk_rows) < top_n THEN Len(wk_rows) ELSE top_n
          IN  wk_hits' = [i \in 1..k |-> wk_rows[s[i]].symbol]
    /\ wk_pc' = "idle"
    /\ UNCHANGED <<wk_prog, wk_cfg, STEP_MODE, wk_run, wk_i, counter, wk_rows,
                   wk_last, holding, records, NotWk>>

\* The end of one week of generate_weekly_signals: entries and exits against
\* the symbols held, then holding = current.
WkWeekEnd ==
    /\ wk_prog = "generate"
    /\ wk_pc = "run"
    /\ wk_i = Len(WkTickers)
    /\ LET current == {wk_rows[i].symbol : i \in 1..Len(wk_rows)}
           new_entries == current \ holding
           exits == holding \ current
           entered == IF new_entries = {} THEN <<>>
                      ELSE <<[date |-> wk_run, entry |-> TRUE, exit |-> FALSE,
                              symbols |-> new_entries]>>
           exited == IF exits = {} THEN <<>>
                     ELSE <<[date |-> wk_run, entry |-> FALSE, exit |-> TRUE,
                             symbols |-> exits]>>
       IN  /\ records' = records \o entered \o exited
           /\ holding' = current
    /\ wk_pc' = "idle"
    /\ UNCHANGED <<wk_prog, wk_cfg, STEP_MODE, wk_run, wk_i, counter, wk_rows,
                   wk_last, wk_hits, NotWk>>

\* After the last week: the CSV is written if there is any record.
WkWriteCsv ==
    /\ wk_prog = "generate"
    /\ wk_pc = "idle"
    /\ wk_pc' = IF records # <<>> THEN "csv_saved" ELSE "no_csv"
    /\ UNCHANGED <<wk_prog, wk_cfg, STEP_MODE, wk_run, wk_i, counter, wk_rows,
                   wk_last, wk_hits, holding, records, NotWk>>

WkNext ==
    \/ WkBegin
    \/ WkAnalyze
    \/ WkScreenReturn
    \/ WkWeekEnd
    \/ WkWriteCsv

SpecWeekly == WkInit /\ [][WkNext]_vars

\* ------------------------------------------------------------------------
\* sepa_trade/utils/timeframe.py and scripts/batch_backtest.py
\* ------------------------------------------------------------------------
\* daily_to_weekly: the Friday closes, the last week dropped.
daily_to_weekly(c) ==
    LET w == to_weekly(c)
    IN  IF Len(w) = 0 THEN <<>> ELSE SubSeq(w, 1, Len(w) - 1)

\* Line 159 of batch_backtest.py reads `close`, a local of run_backtest that
\* is assigned only at line 160: the read raises UnboundLocalError.
CloseIsUnbound == TRUE

\* What run_backtest does: the dict it returns (its "Trades"), the increments
\* of the three globals of the process it runs in, and the exception that
\* leaves it, if any.
BbResult(trades, s2, d, v, raised) ==
    [Trades |-> trades, stage2 |-> s2, daily |-> d, vcp |-> v, raised |-> raised]

\* min(pct_high, 35) of Python: 35 when 35 < pct_high, else pct_high
Min35(x) == IF Lt(Q(35, 1), x) THEN Q(35, 1) ELSE x

run_backtest(feed) ==
    IF feed.none THEN BbResult(0, 0, 0, 0, "none")
    ELSE IF CloseIsUnbound THEN BbResult(0, 0, 0, 0, "none")
    ELSE
        LET close_series == Closes(feed.close)
            weekly == daily_to_weekly(close_series)
            wt == WeeklyTrendTemplate_passes(weekly, Args(TRUE, Q(70, 1), FALSE, NaN, NaN, 4))
            dt == TrendTemplate_passes(
                      close_series,
                      Args(TRUE, Q(70, 1), TRUE, BotPctLow(close_series),
                           Min35(BotPctHigh(close_series)), 30))
        IN  IF wt = "raise" THEN BbResult(0, 0, 0, 0, "IndexError")
            ELSE IF wt = "fail" THEN BbResult(0, 0, 0, 0, "none")
            ELSE IF dt = "raise" THEN BbResult(0, 1, 0, 0, "TypeError")
            ELSE IF dt = "fail" THEN BbResult(0, 1, 0, 0, "none")
            ELSE IF ~feed.vcp.flag THEN BbResult(0, 1, 1, 0, "none")
            ELSE BbResult(feed.trades, 1, 1, 1, "none")

Workers == {"w1", "w2"}

\* What the outside world gives for one ticker: a failed download, or bars,
\* the VCP signal of today and the number of trades of the backtest.
BbNoneFeed == [none |-> TRUE, close |-> Desc(0, 0, 0, 0), vcp |-> NoSignal, trades |-> 0]

BbFeed(d, vcp, trades) == [none |-> FALSE, close |-> d, vcp |-> vcp, trades |-> trades]

BbFeeds ==
    {BbNoneFeed,
     BbFeed(Desc(305, 100, 1, 404), Signal(404, 2), 3),
     BbFeed(Desc(305, 100, 1, 404), NoSignal, 0),
     BbFeed(Desc(305, 400, -1, 96), NoSignal, 0),
     BbFeed(Desc(200, 100, 1, 299), Signal(299, 2), 0)}

NoCounters == [stage2_pass |-> 0, daily_pass |-> 0, vcp_pass |-> 0]

\* main() has read the ticker file; the module globals are 0.
BbInit ==
    /\ bb_pc = "main"
    /\ bb_feed \in [Universe -> BbFeeds]
    /\ bb_next = 0
    /\ bb_worker = [w \in {} |-> NoCounters]
    /\ bb_by = [t \in {} |-> "none"]
    /\ stage2_pass = 0
    /\ daily_pass = 0
    /\ vcp_pass = 0
    /\ bb_results = [t \in {} |-> BbResult(0, 0, 0, 0, "none")]
    /\ bb_out = "none"
    /\ RsOff /\ TtOff /\ BotOff /\ WkOff /\ MrOff /\ IdOff /\ VcOff /\ SzOff /\ ExOff /\ XcOff /\ PuOff /\ WbOff /\ MkOff /\ SgOff

\* mp.Pool(processes): every worker process starts with its own copy of the
\* module globals of the parent.
BbStartPool ==
    /\ bb_pc = "main"
    /\ bb_pc' = "pool"
    /\ bb_worker' = [w \in Workers |->
                        [stage2_pass |-> stage2_pass, daily_pass |-> daily_pass,
                         vcp_pass |-> vcp_pass]]
    /\ UNCHANGED <<bb_feed, bb_next, bb_by, stage2_pass, daily_pass, vcp_pass,
                   bb_results, bb_out, NotBb>>

\* A worker takes the next task of starmap and runs run_backtest in its own
\* process: `global stage2_pass` and the others are the globals of the worker.
BbRunBacktest ==
    /\ bb_pc = "pool"
    /\ bb_next < Len(TickerOrder)
    /\ \E w \in Workers :
          LET tic == TickerOrder[bb_next + 1]
              r == run_backtest(bb_feed[tic])
          IN  /\ bb_worker' = [bb_worker EXCEPT
                                  ![w] = [stage2_pass |-> @.stage2_pass + r.stage2,
                                          daily_pass |-> @.daily_pass + r.daily,
                                          vcp_pass |-> @.vcp_pass + r.vcp]]
              /\ bb_by' = [t \in DOMAIN bb_by \cup {tic} |-> IF t = tic THEN w ELSE bb_by[t]]
              /\ bb_results' = [t \in DOMAIN bb_results \cup {tic} |->
                                   IF t = tic THEN r ELSE bb_results[t]]
    /\ bb_next' = bb_next + 1
    /\ UNCHANGED <<bb_pc, bb_feed, stage2_pass, daily_pass, vcp_pass, bb_out, NotBb>>

\* starmap has returned (or raised what a worker raised); main keeps the
\* results with Trades > 0, returns if there is none, and otherwise saves them
\* and prints its own three globals.
BbReport ==
    /\ bb_pc = "pool"
    /\ bb_next = Len(TickerOrder)
    /\ IF \E t \in DOMAIN bb_results : bb_results[t].raised # "none"
       THEN /\ bb_pc' = "aborted"
            /\ bb_out' = "none"
       ELSE /\ bb_pc' = "done"
            /\ bb_out' = IF \A t \in DOMAIN bb_results : bb_results[t].Trades = 0
                         THEN "no_results"
                         ELSE "counts"
    /\ UNCHANGED <<bb_feed, bb_next, bb_worker, bb_by, stage2_pass, daily_pass,
                   vcp_pass, bb_results, NotBb>>

BbNext ==
    \/ BbStartPool
    \/ BbRunBacktest
    \/ BbReport

SpecBatch == BbInit /\ [][BbNext]_vars

\* ------------------------------------------------------------------------
\* The long-MA condition on its own: _ma40w_rising, _ma200_is_rising and
\* sma200_rising on rising, flat and falling series with one bar moved.
\* ------------------------------------------------------------------------
\* A ramp of n closes with the bar dip_at places before the last one set to
\* dip_to (dip_at = -1: no bar moved).
Moved(n, start, step, dip_at, dip_to) ==
    [n |-> n, start |-> start, step |-> step, dip_at |-> dip_at, dip_to |-> dip_to]

MovedCloses(d) ==
    [i \in 1..d.n |->
        IF d.dip_at >= 0 /\ i = d.n - d.dip_at THEN d.dip_to
        ELSE d.start + d.step * (i - 1)]

MrSeries ==
    {Moved(n, sh[1], sh[2], -1, 0) :
        n \in {42, 43, 44, 60, 228, 229, 232, 260},
        sh \in {<<100, 1>>, <<100, 0>>, <<400, -1>>}}
    \cup {Moved(n, sh[1], sh[2], at, to) :
            n \in {42, 43, 44, 60, 228, 229, 232, 260},
            sh \in {<<100, 1>>, <<100, 0>>, <<400, -1>>},
            at \in 0..3, to \in {50, 500}}

\* 4 is the default of the weekly template, 30 that of the daily one.
MrLookbacks == {1, 2, 4, 30}

Verdict(b) == IF b THEN "True" ELSE "False"

MrInit ==
    /\ mr_series \in MrSeries
    /\ mr_lookback \in MrLookbacks
    /\ mr_weekly = "none"
    /\ mr_daily = "none"
    /\ mr_trend = "none"
    /\ RsOff /\ TtOff /\ BotOff /\ WkOff /\ BbOff /\ IdOff /\ VcOff /\ SzOff /\ ExOff /\ XcOff /\ PuOff /\ WbOff /\ MkOff /\ SgOff

MrWeekly ==
    /\ mr_weekly = "none"
    /\ mr_weekly' = Verdict(_ma40w_rising(MovedCloses(mr_series), mr_lookback))
    /\ UNCHANGED <<mr_series, mr_lookback, mr_daily, mr_trend, NotMr>>

MrDaily ==
    /\ mr_daily = "none"
    /\ mr_daily' = Verdict(_ma200_is_rising(MovedCloses(mr_series), mr_lookback))
    /\ UNCHANGED <<mr_series, mr_lookback, mr_weekly, mr_trend, NotMr>>

MrTrend ==
    /\ mr_trend = "none"
    /\ mr_trend' = Verdict(sma200_rising(MovedCloses(mr_series)))
    /\ UNCHANGED <<mr_series, mr_lookback, mr_weekly, mr_daily, NotMr>>

MrNext ==
    \/ MrWeekly
    \/ MrDaily
    \/ MrTrend

SpecRising == MrInit /\ [][MrNext]_vars

\* ------------------------------------------------------------------------
\* The templates on the series of tests/test_weekly_template.py: a linear
\* rise, and the same series with its last close at 0.9 x the short average
\* (MA10W weekly, MA50 daily), the average taken before the move.
\* ------------------------------------------------------------------------
\* Prices are multiples of 20, so that 0.9 x the short average is a whole
\* number.  A start of 20000 gives a rise of a few percent over a year.
IdSeries(kind) ==
    {Desc(n, start, step, start + step * (n - 1)) :
        n \in IF kind = "weekly" THEN {52, 60, 104} ELSE {252, 260, 300},
        start \in {2000, 20000},
        step \in {20, 40}}

\* ma10_val * price_factor of the test, price_factor = 0.9
MovedLast(c, w) == (9 * SumRange(c, Len(c) - w + 1, Len(c))) \div (10 * w)

ShortWindow(kind) == IF kind = "weekly" THEN 10 ELSE 50

\* template.passes(...): the weekly template with the rating and its default
\* lookback, the daily template with its defaults (it takes no rating).
IdPasses(kind, c, rating) ==
    IF kind = "weekly"
    THEN WeeklyTrendTemplate_passes(c, Args(TRUE, rating, FALSE, NaN, NaN, 4))
    ELSE TrendTemplate_passes(c, Args(FALSE, NaN, FALSE, NaN, NaN, 30))

IdInit ==
    /\ id_kind \in {"weekly", "daily"}
    /\ id_series \in IdSeries(id_kind)
    /\ id_rating \in {Q(70, 1), Q(80, 1), Q(99, 1)}
    /\ id_result = "none"
    /\ id_moved = "none"
    /\ RsOff /\ TtOff /\ BotOff /\ WkOff /\ BbOff /\ MrOff /\ VcOff /\ SzOff /\ ExOff /\ XcOff /\ PuOff /\ WbOff /\ MkOff /\ SgOff

IdEvaluate ==
    /\ id_result = "none"
    /\ id_result' = IdPasses(id_kind, Closes(id_series), id_rating)
    /\ UNCHANGED <<id_kind, id_series, id_rating, id_moved, NotId>>

IdEvaluateMoved ==
    /\ id_moved = "none"
    /\ LET c == Closes(id_series)
           moved == [c EXCEPT ![Len(c)] = MovedLast(c, ShortWindow(id_kind))]
       IN  id_moved' = IdPasses(id_kind, moved, id_rating)
    /\ UNCHANGED <<id_kind, id_series, id_rating, id_result, NotId>>

IdNext ==
    \/ IdEvaluate
    \/ IdEvaluateMoved

SpecIdeal == IdInit /\ [][IdNext]_vars

\* ------------------------------------------------------------------------
\* sepa_trade/strategy/vcp_breakout.py
\* ------------------------------------------------------------------------
Bar(high, low, close, volume) ==
    [High |-> high, Low |-> low, Close |-> close, Volume |-> volume]

Abs(x) == IF x < 0 THEN -x ELSE x

Max2(a, b) == IF a < b THEN b ELSE a

\* The true range of bar i: the largest of High - Low, |High - Close.shift()|
\* and |Low - Close.shift()|; the first bar has no previous close and
\* max(axis=1) skips the two NaN.
TrueRange(bars, i) ==
    IF i = 1
    THEN bars[1].High - bars[1].Low
    ELSE Max2(bars[i].High - bars[i].Low,
              Max2(Abs(bars[i].High - bars[i - 1].Close),
                   Abs(bars[i].Low - bars[i - 1].Close)))

RECURSIVE SumTrueRange(_, _, _)
SumTrueRange(bars, lo, hi) ==
    IF lo > hi THEN 0 ELSE TrueRange(bars, hi) + SumTrueRange(bars, lo, hi - 1)

\* df["ATR10"] at bar i: the 10-bar rolling mean of the true range
ATR10(bars, i) ==
    IF i < 10 \/ i > Len(bars) THEN NaN ELSE Q(SumTrueRange(bars, i - 9, i), 10)

\* len(self.df) < 60 is the first return of check_today
enough_bars_59(bars) == Len(bars) >= 59

enough_bars(bars) == Len(bars) >= 60

\* df["High"].iloc[-21:-1].max(): the 20 bars before the final bar
pivot_high(bars) ==
    LET n == Len(bars)
        highs == {bars[i].High : i \in (n - 20)..(n - 1)}
    IN  CHOOSE m \in highs : \A h \in highs : h <= m

\* The level with no margin: the pivot itself.
breakout_level_no_margin(bars) == Q(pivot_high(bars), 1)

\* pivot_high * 1.01
breakout_level(bars) == Q(pivot_high(bars) * 101, 100)

\* The threshold with a ratio of 1: the average volume itself.
volume_threshold_ratio_1(bars) ==
    LET n == Len(bars)
    IN  Q(SumRange([i \in 1..n |-> bars[i].Volume], n - 20, n - 1), 20)

\* df["Volume"].iloc[-21:-1].mean() * volume_ratio, volume_ratio = 1.5
volume_threshold(bars) ==
    LET n == Len(bars)
        avg_volume_20d == Q(SumRange([i \in 1..n |-> bars[i].Volume], n - 20, n - 1), 20)
    IN  Times(avg_volume_20d, 3, 2)

\* Each range at most half the one before, not under half.
_is_volatility_contracting_at_most(bars) ==
    LET n == Len(bars)
        Range(i) == bars[i].High - bars[i].Low
    IN  IF n < 4 THEN FALSE
        ELSE \A i \in (n - 2)..(n - 1) : 2 * Range(i) <= Range(i - 1)

\* _is_volatility_contracting with shrink_steps = 2 and shrink_ratio = 0.5:
\* of the 3 bars before the final bar, each range is under half the one before.
_is_volatility_contracting(bars) ==
    LET n == Len(bars)
        Range(i) == bars[i].High - bars[i].Low
    IN  IF n < 4 THEN FALSE
        ELSE \A i \in (n - 2)..(n - 1) : 2 * Range(i) < Range(i - 1)

\* The ATR of the final bar, not of the bar before it.
signal_atr_today(bars) == ATR10(bars, Len(bars))

\* self.df["ATR10"].iloc[-2]
signal_atr(bars) == ATR10(bars, Len(bars) - 1)

\* What check_today returns, and the return statement it leaves by.
VcpResult(flag, price, atr, stage) ==
    [flag |-> flag, is_none |-> ~flag, breakout_price |-> price, atr |-> atr,
     stage |-> stage]

check_today(bars) ==
    IF ~enough_bars(bars) THEN VcpResult(FALSE, NaN, NaN, "short")
    ELSE LET today == bars[Len(bars)]
         IN  IF Lt(Q(today.Close, 1), breakout_level(bars))
             THEN VcpResult(FALSE, NaN, NaN, "pivot")
             ELSE IF ~Le(volume_threshold(bars), Q(today.Volume, 1))
             THEN VcpResult(FALSE, NaN, NaN, "volume")
             ELSE IF ~_is_volatility_contracting(bars)
             THEN VcpResult(FALSE, NaN, NaN, "contraction")
             ELSE VcpResult(TRUE, Q(today.Close, 1), signal_atr(bars), "signal")

\* ------------------------------------------------------------------------
\* check_today on its own (SpecVcp).  The bars are those of build_vcp_df:
\* every bar before the final one has High at the pivot (1000), Low a width
\* below it, Close in the middle and Volume 1000; the widths of the three
\* bars before the final bar are r3, r2, r1 and 160 before that (80, 68, 58
\* is build_vcp_df(contraction_rate=0.85)).  One bar,
\* `spike` bars before the final bar, may have a High of 1005 and a Volume
\* of 2000.
\* ------------------------------------------------------------------------
VcBodies ==
    [n : {59, 60, 65},
     r3 : {80}, r2 : {32, 40}, r1 : {12, 16},
     spike : {0, 20, 21}]
    \cup [n : {60}, r3 : {80}, r2 : {68}, r1 : {58}, spike : {0}]

VcFinals ==
    {Bar(cl + 5, 1000, cl, vol) :
        cl \in {1009, 1010, 1011, 1016}, vol \in {1000, 1499, 1500, 3000}}

VcBars(body, final) ==
    LET n == body.n
        width(i) == IF i = n - 1 THEN body.r1
                    ELSE IF i = n - 2 THEN body.r2
                    ELSE IF i = n - 3 THEN body.r3
                    ELSE 160
        spiked(i) == body.spike > 0 /\ i = n - body.spike
    IN  [i \in 1..n |->
            IF i = n THEN final
            ELSE Bar(IF spiked(i) THEN 1005 ELSE 1000,
                     1000 - width(i), 1000 - width(i) \div 2,
                     IF spiked(i) THEN 2000 ELSE 1000)]

NotCalled == [called |-> FALSE] @@ VcpResult(FALSE, NaN, NaN, "none")

VcInit ==
    /\ vc_body \in VcBodies
    /\ vc_final \in [{"a", "b"} -> VcFinals]
    /\ vc_out = [x \in {"a", "b"} |-> NotCalled]
    /\ RsOff /\ TtOff /\ BotOff /\ WkOff /\ BbOff /\ MrOff /\ IdOff /\ SzOff /\ ExOff /\ XcOff /\ PuOff /\ WbOff /\ MkOff /\ SgOff

\* strategy = VCPStrategy(df); flag, signal = strategy.check_today()
VcCheckToday ==
    \E x \in {"a", "b"} :
        /\ ~vc_out[x].called
        /\ vc_out' = [vc_out EXCEPT
                        ![x] = [called |-> TRUE] @@ check_today(VcBars(vc_body, vc_final[x]))]
        /\ UNCHANGED <<vc_body, vc_final, NotVc>>

VcNext == VcCheckToday

SpecVcp == VcInit /\ [][VcNext]_vars

\* ------------------------------------------------------------------------
\* From a BreakoutSignal to a sized order (SpecSizer): the entry loop of
\* scripts/auto_bot.py and VCPBacktestStrategy.next of scripts/backtest_vcp.py
\* and scripts/batch_backtest.py.
\* ------------------------------------------------------------------------
\* The stop distance with a multiplier of 1: the ATR itself.
risk_per_share_atr(sig) == sig.atr

\* risk_per_share = sig.atr * 1.5
risk_per_share(sig) == Times(sig.atr, 3, 2)

\* int(x) of a number: truncation towards zero
IntOf(x) ==
    IF x.num >= 0 THEN x.num \div x.den ELSE -((-x.num) \div x.den)

\* budget / risk, for a risk above zero
Over(budget, risk) == Q(budget.num * risk.den, budget.den * risk.num)

Minus(x, y) == Q(x.num * y.den - y.num * x.den, x.den * y.den)

\* What a site did with the signal: `divided` says whether it divided by
\* risk_per_share on the way.
Sized(kind, divided, risk, qty, stop) ==
    [done |-> TRUE, kind |-> kind, divided |-> divided, risk_per_share |-> risk,
     qty |-> qty, stop_price |-> stop]

NotSized == [Sized("none", FALSE, NaN, 0, NaN) EXCEPT !.done = FALSE]

\* auto_bot.py: `continue` on risk_per_share <= 0, else an OrderInfo of
\* max(int(cash * RISK_PER_TRADE / risk_per_share), 1) shares
auto_bot_size(sig, cash) ==
    LET risk == risk_per_share(sig)
    IN  IF Le(risk, Q(0, 1))
        THEN Sized("continue", FALSE, risk, 0, NaN)
        ELSE Sized("order", TRUE, risk,
                   Max2(IntOf(Over(Q(cash * 125, 10000), risk)), 1),
                   Minus(Q(sig.breakout_price, 1), risk))

\* backtest_vcp.py: return on risk_per_share <= 0, else buy when
\* int(equity * RISK_PER_TRADE / risk_per_share) is above zero
backtest_vcp_size(sig, equity) ==
    LET risk == risk_per_share(sig)
    IN  IF Le(risk, Q(0, 1))
        THEN Sized("return", FALSE, risk, 0, NaN)
        ELSE LET size == IntOf(Over(Q(equity, 100), risk))
             IN  IF size > 0
                 THEN Sized("order", TRUE, risk, size,
                            Minus(Q(sig.breakout_price, 1), risk))
                 ELSE Sized("no_buy", TRUE, risk, size, NaN)

\* batch_backtest.py: the division comes first; by zero it gives infinity,
\* and int() of infinity raises OverflowError
batch_backtest_size(sig, equity) ==
    LET risk == risk_per_share(sig)
    IN  IF Eq(risk, Q(0, 1))
        THEN Sized("error", TRUE, risk, 0, NaN)
        ELSE LET size == IntOf(Over(Q(equity, 100), risk))
             IN  IF size > 0
                 THEN Sized("order", TRUE, risk, size,
                            Minus(Q(sig.breakout_price, 1), risk))
                 ELSE Sized("no_buy", TRUE, risk, size, NaN)

SzSites == {"auto_bot", "backtest_vcp", "batch_backtest"}

SzSignals ==
    [breakout_price : {100, 250},
     atr : {Q(0, 1), Q(1, 2), Q(2, 1), Q(3, 1), Q(5000, 1)}]

SzEquities == {1000, 100000, 250000}

SzInit ==
    /\ sz_sig \in SzSignals
    /\ sz_equity \in SzEquities
    /\ sz_out = [x \in SzSites |-> NotSized]
    /\ RsOff /\ TtOff /\ BotOff /\ WkOff /\ BbOff /\ MrOff /\ IdOff /\ VcOff /\ ExOff /\ XcOff /\ PuOff /\ WbOff /\ MkOff /\ SgOff

SzAutoBot ==
    /\ ~sz_out["auto_bot"].done
    /\ sz_out' = [sz_out EXCEPT !["auto_bot"] = auto_bot_size(sz_sig, sz_equity)]
    /\ UNCHANGED <<sz_sig, sz_equity, NotSz>>

SzBacktestVcp ==
    /\ ~sz_out["backtest_vcp"].done
    /\ sz_out' = [sz_out EXCEPT !["backtest_vcp"] = backtest_vcp_size(sz_sig, sz_equity)]
    /\ UNCHANGED <<sz_sig, sz_equity, NotSz>>

SzBatchBacktest ==
    /\ ~sz_out["batch_backtest"].done
    /\ sz_out' = [sz_out EXCEPT !["batch_backtest"] = batch_backtest_size(sz_sig, sz_equity)]
    /\ UNCHANGED <<sz_sig, sz_equity, NotSz>>

SzNext == SzAutoBot \/ SzBacktestVcp \/ SzBatchBacktest

SpecSizer == SzInit /\ [][SzNext]_vars

\* ------------------------------------------------------------------------
\* sepa_trade/strategy/exit_rules.py (SpecExit)
\* ------------------------------------------------------------------------
\* A bar of the frame; a bar of NaN has nan set.
ExBar(nan, close) ==
    [nan |-> nan, High |-> close + 1, Low |-> close - 1, Close |-> close]

\* The closes of a steadily rising frame, about 1% a bar as in
\* create_test_df: 1005, then 1060, 1070, 1080, ...
ExRamp(i) == IF i = 1 THEN 1005 ELSE 1040 + 10 * i

\* The frames of create_test_df.  A flat frame is at 100 up to the last two
\* bars, whose closes are prev and last; a rising frame follows ExRamp, and
\* a last of 90 puts its last close 10% below the close before.  validity
\* says which bars are NaN.  The tests overwrite cells of the last row: its
\* Low is lowered by drop.
ExBars(d) ==
    [i \in 1..d.n |->
        LET close == IF d.shape = "rising"
                     THEN IF i = d.n /\ d.last = 90
                          THEN (ExRamp(d.n - 1) * 9) \div 10
                          ELSE ExRamp(i)
                     ELSE IF i = d.n THEN d.last
                     ELSE IF i = d.n - 1 THEN d.prev ELSE 100
            bar == ExBar(\/ d.validity = "all_nan"
                         \/ d.validity = "first_nan" /\ i = 1
                         \/ d.validity = "last_nan" /\ i = d.n,
                         close)
        IN  IF i = d.n THEN [bar EXCEPT !.Low = bar.Low - d.drop] ELSE bar]

\* len(df) < 11 raises ValueError
has_min_bars_10(bars) == Len(bars) >= 10

has_min_bars(bars) == Len(bars) >= 11

\* tr: max(axis=1) skips NaN, so only a bar of NaN has no true range, and
\* the bar after it has High - Low
ExTrueRange(bars, i) ==
    IF bars[i].nan THEN NaN
    ELSE IF i > 1 /\ bars[i - 1].nan THEN Q(bars[i].High - bars[i].Low, 1)
    ELSE Q(TrueRange(bars, i), 1)

\* df["ATR10"] = tr.rolling(10).mean()
ExATR10(bars, i) ==
    IF i < 10 \/ \E k \in (i - 9)..i : IsNaN(ExTrueRange(bars, k)) THEN NaN
    ELSE Q(SumRange([k \in 1..Len(bars) |->
                        IF IsNaN(ExTrueRange(bars, k)) THEN 0
                        ELSE ExTrueRange(bars, k).num], i - 9, i), 10)

RECURSIVE GCD(_, _)
GCD(a, b) == IF b = 0 THEN a ELSE GCD(b, a % b)

\* the same number in lowest terms
Lowest(x) ==
    LET g == GCD(Abs(x.num), x.den)
    IN  Q(x.num \div g, x.den \div g)

\* df["EMA10"] = Close.ewm(span=10, adjust=False).mean(): alpha = 2 / 11; the
\* mean starts at the first close that is not NaN and is carried over a NaN.
RECURSIVE EMA10(_, _)
EMA10(bars, i) ==
    IF i = 0 THEN NaN
    ELSE LET before == EMA10(bars, i - 1)
         IN  IF bars[i].nan THEN before
             ELSE IF IsNaN(before) THEN Q(bars[i].Close, 1)
             ELSE Lowest(Q(2 * bars[i].Close * before.den + 9 * before.num,
                           11 * before.den))

Trigger(value, branch) == [called |-> TRUE, value |-> value, branch |-> branch]

NotTriggered == [called |-> FALSE, value |-> FALSE, branch |-> "none"]

\* atr_trail(n=1.5): Low < entry_price - latest_atr * 1.5
atr_trail(bars, entry_price) ==
    LET latest_atr == ExATR10(bars, Len(bars))
        today == bars[Len(bars)]
    IN  IF IsNaN(latest_atr) THEN Trigger(FALSE, "cannot_evaluate")
        ELSE Trigger(Lt(IF today.nan THEN NaN ELSE Q(today.Low, 1),
                        Minus(Q(entry_price, 1), Times(latest_atr, 3, 2))),
                     "compared")

\* True also for a close that is equal to the average.
ema_cross_at_or_below(bars) ==
    LET latest_ema == EMA10(bars, Len(bars))
        today == bars[Len(bars)]
    IN  IF IsNaN(latest_ema) THEN Trigger(FALSE, "cannot_evaluate")
        ELSE Trigger(Le(IF today.nan THEN NaN ELSE Q(today.Close, 1), latest_ema),
                     "compared")

\* ema_cross(): Close < latest_ema
ema_cross(bars) ==
    LET latest_ema == EMA10(bars, Len(bars))
        today == bars[Len(bars)]
    IN  IF IsNaN(latest_ema) THEN Trigger(FALSE, "cannot_evaluate")
        ELSE Trigger(Lt(IF today.nan THEN NaN ELSE Q(today.Close, 1), latest_ema),
                     "compared")

ExFrames ==
    [n : {9, 10, 11, 12, 20}, prev : {90, 100, 110}, last : {90, 100, 110},
     drop : {0, 3, 14}, shape : {"flat"},
     validity : {"valid", "first_nan", "last_nan", "all_nan"}]
    \cup
    [n : {10, 15, 20}, prev : {100}, last : {90, 100},
     drop : {0, 3}, shape : {"rising"}, validity : {"valid"}]

ExInit ==
    /\ ex_df \in ExFrames
    /\ ex_entry \in {100, 110, 118}
    /\ ex_state = "new"
    /\ ex_atr_trail = NotTriggered
    /\ ex_ema_cross = NotTriggered
    /\ RsOff /\ TtOff /\ BotOff /\ WkOff /\ BbOff /\ MrOff /\ IdOff /\ VcOff /\ SzOff /\ XcOff /\ PuOff /\ WbOff /\ MkOff /\ SgOff

\* ExitStrategy(df, entry_price)
ExConstruct ==
    /\ ex_state = "new"
    /\ ex_state' = IF has_min_bars(ExBars(ex_df)) THEN "built" ELSE "raised"
    /\ UNCHANGED <<ex_df, ex_entry, ex_atr_trail, ex_ema_cross, NotEx>>

ExAtrTrail ==
    /\ ex_state = "built"
    /\ ~ex_atr_trail.called
    /\ ex_atr_trail' = atr_trail(ExBars(ex_df), ex_entry)
    /\ UNCHANGED <<ex_df, ex_entry, ex_state, ex_ema_cross, NotEx>>

ExEmaCross ==
    /\ ex_state = "built"
    /\ ~ex_ema_cross.called
    /\ ex_ema_cross' = ema_cross(ExBars(ex_df))
    /\ UNCHANGED <<ex_df, ex_entry, ex_state, ex_atr_trail, NotEx>>

ExNext == ExConstruct \/ ExAtrTrail \/ ExEmaCross

SpecExit == ExInit /\ [][ExNext]_vars

\* ------------------------------------------------------------------------
\* The exit loop of scripts/auto_bot.py with TradeManager.exit_trade
\* (SpecExitCycle)
\* ------------------------------------------------------------------------
\* The recent bars of a position by the name of their case: no frame at
\* all, 19 bars, or 20 bars on which the one, the other, both or neither of
\* the triggers fire for the entry price that goes with them.
XcCases == {"no_data", "short", "neither", "atr_only", "ema_only", "both"}

XcFrame(case) ==
    [n |-> IF case = "short" THEN 19 ELSE 20,
     prev |-> 100,
     last |-> IF case \in {"ema_only", "both"} THEN 90
              ELSE IF case = "atr_only" THEN 110 ELSE 100,
     drop |-> 0, shape |-> "flat", validity |-> "valid"]

XcEntryPrice(case) ==
    IF case = "atr_only" THEN 118 ELSE IF case = "ema_only" THEN 90 ELSE 100

\* One entry of list_positions(), with the open orders the broker holds for
\* its symbol and whether the broker answers the next call with an APIError.
XcPosition(symbol, case, orders, api_error) ==
    [symbol |-> symbol, case |-> case, open_orders |-> orders,
     api_error |-> api_error]

\* Exit only when both triggers fire.
should_exit_on_both(bars, entry_price) ==
    atr_trail(bars, entry_price).value /\ ema_cross(bars).value

\* exit_strat.atr_trail(n=ATR_MULT_EXIT) or exit_strat.ema_cross()
should_exit(bars, entry_price) ==
    atr_trail(bars, entry_price).value \/ ema_cross(bars).value

\* TradeManager.exit_trade: the open orders of the symbol are cancelled and
\* the position is closed; an APIError of the first call ends it with a
\* warning.
exit_trade(pos) ==
    IF pos.api_error THEN <<>>
    ELSE [k \in 1..pos.open_orders |-> [kind |-> "cancel", symbol |-> pos.symbol]]
         \o <<[kind |-> "close", symbol |-> pos.symbol]>>

XcPositionLists ==
    {<<>>}
    \cup {<<XcPosition("AAA", c, o, e)>> :
             c \in XcCases, o \in {0, 1}, e \in BOOLEAN}
    \cup {<<XcPosition("AAA", c1, 1, FALSE), XcPosition("BBB", c2, o, e)>> :
             c1 \in XcCases, c2 \in XcCases, o \in {0, 1}, e \in BOOLEAN}

XcInit ==
    /\ xc_positions \in XcPositionLists
    /\ xc_pc = "start"
    /\ xc_i = 0
    /\ xc_exits = <<>>
    /\ xc_requests = <<>>
    /\ RsOff /\ TtOff /\ BotOff /\ WkOff /\ BbOff /\ MrOff /\ IdOff /\ VcOff /\ SzOff /\ ExOff /\ PuOff /\ WbOff /\ MkOff /\ SgOff

\* positions = tm.api.list_positions(); nothing to check ends main
XcListPositions ==
    /\ xc_pc = "start"
    /\ xc_pc' = IF xc_positions = <<>> THEN "done" ELSE "loop"
    /\ xc_i' = 1
    /\ UNCHANGED <<xc_positions, xc_exits, xc_requests, NotXc>>

\* one pass of `for pos in positions`
XcCheckPosition ==
    /\ xc_pc = "loop"
    /\ LET pos == xc_positions[xc_i]
           bars == ExBars(XcFrame(pos.case))
           skipped == pos.case = "no_data" \/ Len(bars) < 20
           exits == ~skipped /\ has_min_bars(bars)
                       /\ should_exit(bars, XcEntryPrice(pos.case))
       IN  /\ xc_exits' = IF exits THEN Append(xc_exits, pos.symbol) ELSE xc_exits
           /\ xc_requests' = IF exits THEN xc_requests \o exit_trade(pos)
                             ELSE xc_requests
    /\ xc_i' = xc_i + 1
    /\ xc_pc' = IF xc_i = Len(xc_positions) THEN "done" ELSE "loop"
    /\ UNCHANGED <<xc_positions, NotXc>>

XcNext == XcListPositions \/ XcCheckPosition

SpecExitCycle == XcInit /\ [][XcNext]_vars

\* ------------------------------------------------------------------------
\* The four evaluators as objects over a caller's frame (SpecRepeat):
\* VCPStrategy, ExitStrategy, TrendTemplate and WeeklyTrendTemplate keep
\* self.df = price_df.copy() and add their columns to it.
\* ------------------------------------------------------------------------
Frame(cols, data) == [cols |-> cols, data |-> data]

CallerColumns(kind) ==
    IF kind \in {"vcp", "exit"} THEN {"Open", "High", "Low", "Close", "Volume"}
    ELSE {"Close"}

\* the columns the constructor assigns to self.df
AddedColumns(kind) ==
    IF kind = "vcp" THEN {"Range", "ATR10"}
    ELSE IF kind = "exit" THEN {"ATR10", "EMA10"}
    ELSE IF kind = "trend" THEN {"MA50", "MA150", "MA200"}
    ELSE {"MA10W", "MA30W", "MA40W"}

\* self.df = price_df: the evaluator keeps the caller's own object
keep_reference(frames) == <<frames, "caller">>

\* self.df = price_df.copy(): a new object with the caller's content
copy(frames) == <<[frames EXCEPT !.own = frames.caller], "own">>

\* The constructor raises before it touches anything.
ConstructorRaises(kind, data) ==
    kind = "exit" /\ ~has_min_bars(ExBars(data.frame))

\* What the check methods of the evaluator return, read from self.df.
Evaluate(kind, data) ==
    IF kind = "vcp" THEN check_today(VcBars(data.body, data.final))
    ELSE IF kind = "exit"
    THEN [atr_trail |-> atr_trail(ExBars(data.frame), data.entry_price),
          ema_cross |-> ema_cross(ExBars(data.frame))]
    ELSE IF kind = "trend"
    THEN [passes |-> TrendTemplate_passes(Closes(data.series),
                         Args(FALSE, NaN, FALSE, NaN, NaN, 30))]
    ELSE [passes |-> WeeklyTrendTemplate_passes(Closes(data.series),
                         Args(TRUE, Q(80, 1), FALSE, NaN, NaN, 4))]

PuInputs(kind) ==
    IF kind = "vcp"
    THEN [body : {b \in VcBodies : b.n # 60 /\ b.spike = 0 /\ b.r2 = 32 /\ b.r1 = 12},
          final : VcFinals]
    ELSE IF kind = "exit"
    THEN [frame : {f \in ExFrames : f.n \in {10, 20} /\ f.drop = 0
                                      /\ f.shape = "flat" /\ f.validity = "valid"},
          entry_price : {100}]
    ELSE [series : IdSeries(IF kind = "trend" THEN "daily" ELSE "weekly")]

PuInit ==
    /\ pu_kind \in {"vcp", "exit", "trend", "weekly"}
    /\ \E data \in PuInputs(pu_kind) :
           pu_frames = [caller |-> Frame(CallerColumns(pu_kind), data),
                        own |-> Frame({}, data)]
    /\ pu_ref = "none"
    /\ pu_built = 0
    /\ pu_results = <<>>
    /\ RsOff /\ TtOff /\ BotOff /\ WkOff /\ BbOff /\ MrOff /\ IdOff /\ VcOff /\ SzOff /\ ExOff /\ XcOff /\ WbOff /\ MkOff /\ SgOff

\* VCPStrategy(df), ExitStrategy(df, entry_price), TrendTemplate(df),
\* WeeklyTrendTemplate(df): copy, then assign the new columns
PuConstruct ==
    /\ pu_built < 2
    /\ ~ConstructorRaises(pu_kind, pu_frames.caller.data)
    /\ LET made == copy(pu_frames)
           ref == made[2]
       IN  /\ pu_frames' = [made[1] EXCEPT
                               ![ref].cols = @ \cup AddedColumns(pu_kind)]
           /\ pu_ref' = ref
    /\ pu_built' = pu_built + 1
    /\ UNCHANGED <<pu_kind, pu_results, NotPu>>

\* check_today(), atr_trail() and ema_cross(), passes()
PuCall ==
    /\ pu_built > 0
    /\ Len(pu_results) < MaxCalls
    /\ pu_results' = Append(pu_results, Evaluate(pu_kind, pu_frames[pu_ref].data))
    /\ UNCHANGED <<pu_kind, pu_frames, pu_ref, pu_built, NotPu>>

PuNext == PuConstruct \/ PuCall

SpecRepeat == PuInit /\ [][PuNext]_vars

\* ------------------------------------------------------------------------
\* sepa/broker/webull_client.py (SpecWebull)
\* ------------------------------------------------------------------------
\* A CSV row: row.get("Qty") is None without the column, else a number or
\* NaN; Entry, Stop and TP are prices.
WbRow(has_qty, qty, entry, stop) ==
    [has_qty |-> has_qty, Qty |-> qty, Entry |-> entry, Stop |-> stop]

\* _build_order_payload: the payload, or the ValueError it raises.  A Qty
\* that is truthy and not NaN is taken as it is; else the quantity is
\* max(1, int(capital * risk_pct / 100 / |entry - stop|)) with capital
\* 1,000,000 and risk_pct 1.
_build_order_payload(priced, row) ==
    IF ~priced THEN [raised |-> TRUE, qty |-> 0]
    ELSE IF row.has_qty /\ ~IsNaN(row.Qty) /\ row.Qty.num # 0
    THEN [raised |-> FALSE, qty |-> IntOf(row.Qty)]
    ELSE LET diff == Abs(row.Entry - row.Stop)
         IN  IF diff <= 0 THEN [raised |-> TRUE, qty |-> 0]
             ELSE [raised |-> FALSE, qty |-> Max2(1, 10000 \div diff)]

\* Every order that is not a dry run is sent.
sends_live_unless_dry_run(paper, dry_run) == ~dry_run

\* if dry_run or self.paper: _simulate_order, else _send_order
sends_live(paper, dry_run) == ~(dry_run \/ paper)

\* _simulate_order and _send_order
WbResult(status, payload) == [status |-> status, qty |-> payload.qty]

\* The rows of a CSV without and with a Qty column.
WbRows(has_qty) ==
    IF ~has_qty
    THEN {WbRow(FALSE, NaN, 150, stop) : stop \in {145, 150}}
    ELSE {WbRow(TRUE, qty, 150, 145) :
             qty \in {NaN, Q(0, 1), Q(10, 1), Q(-10, 1), Q(1, 2)}}
         \cup {WbRow(TRUE, NaN, 150, 150)}

WbCsvs ==
    {[priced |-> FALSE, rows |-> <<WbRow(FALSE, NaN, 0, 0)>>]}
    \cup {[priced |-> TRUE, rows |-> <<>>]}
    \cup UNION {{[priced |-> TRUE, rows |-> <<r>>] : r \in WbRows(h)}
                    \cup {[priced |-> TRUE, rows |-> <<r1, r2>>] :
                              r1 \in WbRows(h), r2 \in WbRows(h)} : h \in BOOLEAN}

WbInit ==
    /\ wb_csv \in WbCsvs
    /\ wb_paper \in BOOLEAN
    /\ wb_dry_run \in BOOLEAN
    /\ wb_pc = "call"
    /\ wb_results = <<>>
    /\ wb_sent = 0
    /\ RsOff /\ TtOff /\ BotOff /\ WkOff /\ BbOff /\ MrOff /\ IdOff /\ VcOff /\ SzOff /\ ExOff /\ XcOff /\ PuOff /\ MkOff /\ SgOff

\* pd.read_csv; an empty file or frame returns the empty list
WbRead ==
    /\ wb_pc = "call"
    /\ wb_pc' = IF wb_csv.rows = <<>> THEN "returned" ELSE "rows"
    /\ UNCHANGED <<wb_csv, wb_paper, wb_dry_run, wb_results, wb_sent, NotWb>>

\* one pass of `for _, row in df.iterrows()`, and the return after the last
WbPlace ==
    /\ wb_pc = "rows"
    /\ LET row == wb_csv.rows[Len(wb_results) + 1]
           payload == _build_order_payload(wb_csv.priced, row)
           live == sends_live(wb_paper, wb_dry_run)
       IN  IF payload.raised
           THEN /\ wb_pc' = "raised"
                /\ UNCHANGED <<wb_results, wb_sent>>
           ELSE /\ wb_results' = Append(wb_results,
                                    WbResult(IF live THEN "SENT" ELSE "SIMULATED",
                                             payload))
                /\ wb_sent' = IF live THEN wb_sent + 1 ELSE wb_sent
                /\ wb_pc' = IF Len(wb_results) + 1 = Len(wb_csv.rows)
                            THEN "returned" ELSE "rows"
    /\ UNCHANGED <<wb_csv, wb_paper, wb_dry_run, NotWb>>

WbNext == WbRead \/ WbPlace

SpecWebull == WbInit /\ [][WbNext]_vars

\* ------------------------------------------------------------------------
\* Claims about the ranker (SpecRS)
\* ------------------------------------------------------------------------
RsTickers == DOMAIN rs_dict

RsScore(t) == rs_out.scores[t]

\* The return of one ticker's own series, computed by calc_percent_return.
OwnReturn(t) == calc_percent_return(Closes(rs_dict[t]), rs_lookback)

\* A ticker the ranking leaves out: fewer than lookback+1 closes, or a base
\* price close[-1-lookback] <= 0.
RsExcluded(t) ==
    \/ rs_dict[t].n < rs_lookback + 1
    \/ Closes(rs_dict[t])[rs_dict[t].n - rs_lookback] <= 0

RsRemaining == {t \in RsTickers : ~RsExcluded(t)}

RsScored == {t \in RsTickers : ~IsNaN(RsScore(t))}

RECURSIVE SumTo(_, _)
SumTo(lo, hi) == IF lo > hi THEN 0 ELSE hi + SumTo(lo, hi - 1)

C6_EmptyMapGivesEmptyResult ==
    (rs_pc = "done" /\ RsTickers = {}) =>
        (~rs_out.raised /\ DOMAIN rs_out.scores = {})

\* ------------------------------------------------------------------------
\* Claims about the trend templates (SpecTrend)
\* ------------------------------------------------------------------------
\* C3: called with an RS rating below 70, as auto_bot calls them, the weekly
\* and the daily template both return fail (a boolean), whatever the series.
C3_LowRatingFailsBothTemplates ==
    (Lt(tt_rating, Q(70, 1)) /\ tt_close.n >= 1) =>
        /\ tt_weekly.call = "auto_bot" => tt_weekly.result = "fail"
        /\ tt_daily.call = "auto_bot" => tt_daily.result = "fail"

\* C10: given their arguments, the templates return fail and raise nothing on
\* a series too short for a moving average or the 52-period high and low:
\* fewer than 52 weekly bars, fewer than 252 daily bars.
C10_ShortSeriesFailsWithoutRaising ==
    /\ (tt_weekly.call = "auto_bot" /\ tt_close.n < 52) => tt_weekly.result = "fail"
    /\ (tt_daily.call = "screener" /\ tt_close.n < 252) => tt_daily.result = "fail"

\* The series has w bars or more and the lowest close of its last w bars is
\* zero or negative.
TtLowNotPositive(w) ==
    LET c == Closes(tt_close)
    IN  /\ Len(c) >= w
        /\ \E k \in (Len(c) - w + 1)..Len(c) : c[k] <= 0

\* C13: a template called on a series whose trailing 52-period low is <= 0
\* returns fail: the weekly template as auto_bot calls it (52 weeks), the
\* daily template computing the distances itself (252 days).
C13_NonPositiveLowFails ==
    /\ (tt_weekly.call = "auto_bot" /\ TtLowNotPositive(52)) => tt_weekly.result = "fail"
    /\ (tt_daily.call = "screener" /\ TtLowNotPositive(252)) => tt_daily.result = "fail"

\* ------------------------------------------------------------------------
\* Claims about auto_bot.main and SepaScreener.screen (SpecBot)
\* ------------------------------------------------------------------------
BotFinished == bot_pc \in {"aborted", "exit", "returned"}

\* The tickers the screening loop of the running program goes over.
BotLoopTickers == IF bot_prog = "auto_bot" THEN DOMAIN ohlcv_data ELSE Universe

\* C2: a screening loop that has started goes over every ticker and ends
\* without an error, whatever happens while one ticker is evaluated.
C2_TickerFailureDoesNotAbortBatch ==
    (BotFinished /\ DOMAIN ohlcv_data # {}) =>
        (bot_error = "none" /\ BotLoopTickers \subseteq bot_seen)

\* C7: every call of a trend template is made after the batch has been
\* ranked, and for a ticker that has a score.
C7_RankedBeforeTemplates ==
    \A c \in bot_calls : c.rs_ready /\ ~c.rs_nan

\* ------------------------------------------------------------------------
\* Claims about the weekly pipeline (SpecWeekly)
\* ------------------------------------------------------------------------
\* The last call of analyze_one_asof got as far as the trend stage.
WkReachedTrend ==
    /\ wk_last.symbol # "none"
    /\ wk_last.key \notin {"no_first_date", "pre_ipo", "no_data", "short_history", "liquidity"}

\* C1: with every stage switched on, analyze_one_asof returns a row only for a
\* ticker that is liquid, satisfies the trend template conditions and has
\* acceptable fundamentals; a ticker that reaches the trend stage and violates
\* the trend template conditions is dropped under the reason "trend".
C1_ReturnedOnlyAfterEveryStage ==
    STEP_MODE = "all" =>
        /\ wk_last.returned => (wk_last.liquid /\ wk_last.conds /\ wk_last.growth)
        /\ (WkReachedTrend /\ ~wk_last.conds) => wk_last.key = "trend"

\* C8: when a screening run begins (a call of screen, a weekly cycle of
\* generate_weekly_signals), every stage counter is zero.
C8_CountersZeroAtRunStart ==
    (wk_pc = "run" /\ wk_i = 0) => \A k \in CounterKeys : counter[k] = 0

\* ------------------------------------------------------------------------
\* Claims about the batch backtest (SpecBatch)
\* ------------------------------------------------------------------------
\* The tickers whose bars pass the weekly template with the RS rating 70 that
\* run_backtest gives it: the tickers that pass stage 2.
BbStage2Passers ==
    {t \in Universe :
        /\ ~bb_feed[t].none
        /\ WeeklyTrendTemplate_passes(
               daily_to_weekly(Closes(bb_feed[t].close)),
               Args(TRUE, Q(70, 1), FALSE, NaN, NaN, 4)) = "pass"}

\* C9: when main() of batch_backtest ends, the stage2_pass it reports is the
\* number of tickers that passed stage 2, added up over the workers, and
\* daily_pass and vcp_pass are the counts the workers made.
C9_ReportedCountsAreTotals ==
    bb_pc = "done" =>
        /\ stage2_pass = Cardinality(BbStage2Passers)
        /\ \A w \in Workers : bb_worker[w].daily_pass <= daily_pass
        /\ \A w \in Workers : bb_worker[w].vcp_pass <= vcp_pass

\* ------------------------------------------------------------------------
\* Claims about the long-MA condition (SpecRising)
\* ------------------------------------------------------------------------
\* The w-bar mean has at least `lookback` values and none of its last
\* `lookback` values is below the one before it: the mean at bar k is not
\* below the mean at bar k-1 exactly when close[k] >= close[k-w].
NonDecreasingTail(c, w, lookback) ==
    /\ Len(c) - w + 1 >= lookback
    /\ \A k \in (Len(c) - lookback + 2)..Len(c) : c[k] >= c[k - w]

\* The w-bar mean at the last bar is higher than it was `lookback` bars earlier.
HigherThanBefore(c, w, lookback) ==
    /\ Len(c) - lookback >= w
    /\ SumRange(c, Len(c) - w + 1, Len(c))
           > SumRange(c, Len(c) - lookback - w + 1, Len(c) - lookback)

IdFarAboveLow ==
    LET w == IF id_kind = "weekly" THEN 52 ELSE 252
        c == Closes(id_series)
    IN  10 * c[Len(c)] >= 13 * c[Len(c) - w + 1]

VcRuns == {"a", "b"}

\* The highest High and the summed Volume of the 20 bars before the final
\* bar, read off the body: the spiked bar counts when it is among them.
VcPivot == IF vc_body.spike \in 1..20 THEN 1005 ELSE 1000

VcVolumeSum == IF vc_body.spike \in 1..20 THEN 21000 ELSE 20000

\* C14 as stated: a signal is emitted only if the final Close is strictly
\* greater than pivot * 1.01, the pivot being the highest High of the 20 bars
\* before the final bar.
C14_SignalOnlyAbovePivotLevel ==
    \A x \in VcRuns :
        (vc_out[x].called /\ vc_out[x].flag)
            => vc_final[x].Close * 100 > VcPivot * 101

\* C14, amended: a signal is emitted only if the final Close is at least
\* pivot * 1.01 (the final bar's own High excluded from the pivot); with 60
\* bars or more, check_today leaves by the breakout return exactly when the
\* final Close is below pivot * 1.01, so a Close equal to it is accepted.
C14_SignalOnlyAtOrAbovePivotLevel ==
    \A x \in VcRuns :
        vc_out[x].called =>
            /\ vc_out[x].flag => vc_final[x].Close * 100 >= VcPivot * 101
            /\ vc_body.n >= 60 =>
                   ((vc_out[x].stage = "pivot")
                        <=> (vc_final[x].Close * 100 < VcPivot * 101))

\* A signal for a final Close equal to pivot * 1.01, which is below 1.01
\* times the final bar's own High and below 1.01 times a High 21 bars back.
C14_Witness ==
    \E x \in VcRuns :
        /\ vc_out[x].called /\ vc_out[x].flag
        /\ vc_final[x].Close * 100 = VcPivot * 101
        /\ vc_final[x].Close * 100 < vc_final[x].High * 101
        /\ vc_body.spike = 21

\* C15: a signal is emitted only if the final Volume is at least 1.5 times
\* the mean Volume of the 20 bars before the final bar; a final Volume equal
\* to that mean gives (False, None).
C15_SignalOnlyOnVolumeSurge ==
    \A x \in VcRuns :
        vc_out[x].called =>
            /\ vc_out[x].flag => vc_final[x].Volume * 2 * 20 >= 3 * VcVolumeSum
            /\ vc_final[x].Volume * 20 = VcVolumeSum
                   => ~vc_out[x].flag /\ vc_out[x].is_none

\* One final bar is past the breakout level with a Volume equal to the mean
\* and is turned down for its volume; the other has exactly 1.5 times the
\* mean and gives a signal.
C15_Witness ==
    \E x, y \in VcRuns :
        /\ vc_out[x].called /\ vc_out[y].called
        /\ vc_final[x].Volume * 20 = VcVolumeSum
        /\ vc_out[x].stage = "volume"
        /\ vc_final[y].Volume * 2 * 20 = 3 * VcVolumeSum
        /\ vc_out[y].flag

\* C16: a True flag comes with a signal whose breakout_price is the final
\* Close and whose atr is positive; a False flag, and every series of fewer
\* than 60 bars, comes with None.
C16_FlagAndSignalAgree ==
    \A x \in VcRuns :
        vc_out[x].called =>
            /\ vc_out[x].flag =>
                   /\ ~vc_out[x].is_none
                   /\ Eq(vc_out[x].breakout_price, Q(vc_final[x].Close, 1))
                   /\ Lt(Q(0, 1), vc_out[x].atr)
            /\ ~vc_out[x].flag => vc_out[x].is_none
            /\ vc_body.n < 60 => ~vc_out[x].flag /\ vc_out[x].is_none

\* The same history gives a signal for one final bar and None for another.
C16_Witness ==
    \E x, y \in VcRuns :
        /\ vc_out[x].called /\ vc_out[x].flag /\ ~vc_out[x].is_none
        /\ vc_out[y].called /\ ~vc_out[y].flag /\ vc_out[y].is_none

\* The true range of bar i of the history, with the maximum taken as the
\* member of the three candidates that none of them exceeds.
VcTrueRangeBefore(i) ==
    LET bars == VcBars(vc_body, Bar(0, 0, 0, 0))
        cands == {bars[i].High - bars[i].Low,
                  Abs(bars[i].High - bars[i - 1].Close),
                  Abs(bars[i].Low - bars[i - 1].Close)}
    IN  CHOOSE t \in cands : \A u \in cands : u <= t

RECURSIVE VcSumTrueRangeBefore(_, _)
VcSumTrueRangeBefore(lo, hi) ==
    IF lo > hi THEN 0
    ELSE VcTrueRangeBefore(hi) + VcSumTrueRangeBefore(lo, hi - 1)

\* C17: the atr of a signal is the mean true range of the 10 bars ending at
\* the bar before the final bar, so two series that differ only in the final
\* bar and both give a signal carry the same atr.
C17_AtrIgnoresFinalBar ==
    /\ \A x \in VcRuns :
           (vc_out[x].called /\ vc_out[x].flag) =>
               Eq(vc_out[x].atr,
                  Q(VcSumTrueRangeBefore(vc_body.n - 10, vc_body.n - 1), 10))
    /\ (\A x \in VcRuns : vc_out[x].called /\ vc_out[x].flag)
           => Eq(vc_out["a"].atr, vc_out["b"].atr)

\* Two signals for final bars with different prices.
C17_Witness ==
    /\ \A x \in VcRuns : vc_out[x].called /\ vc_out[x].flag
    /\ vc_final["a"].Close # vc_final["b"].Close
    /\ vc_final["a"].High # vc_final["b"].High


\* ------------------------------------------------------------------------
\* Claims about order sizing (SpecSizer)
\* ------------------------------------------------------------------------
\* q is the whole number of times the stop distance goes into the budget
\* num / den of the account
SzWholeShares(q, num, den, risk) ==
    /\ Le(Times(risk, q, 1), Q(sz_equity * num, den))
    /\ Lt(Q(sz_equity * num, den), Times(risk, q + 1, 1))

\* C18: for a signal with atr > 0 the order of auto_bot has riskPerShare =
\* atr * 1.5, quantity = max(floor(equity * 1.25% / riskPerShare), 1) and
\* stopPrice = breakoutPrice - riskPerShare; atr 2 and equity 100000 give
\* riskPerShare 3, quantity 416 and stopPrice = breakoutPrice - 3.
C18_OrderSizedFromAtr ==
    LET out == sz_out["auto_bot"]
        risk == Q(sz_sig.atr.num * 3, sz_sig.atr.den * 2)
    IN  (out.done /\ Lt(Q(0, 1), sz_sig.atr)) =>
            /\ out.kind = "order"
            /\ Eq(out.risk_per_share, risk)
            /\ \E q \in 0..out.qty :
                   /\ SzWholeShares(q, 125, 10000, risk)
                   /\ out.qty = IF q < 1 THEN 1 ELSE q
            /\ Eq(out.stop_price, Q(sz_sig.breakout_price * 2 * sz_sig.atr.den
                                        - 3 * sz_sig.atr.num, 2 * sz_sig.atr.den))
            /\ (Eq(sz_sig.atr, Q(2, 1)) /\ sz_equity = 100000) =>
                   /\ Eq(out.risk_per_share, Q(3, 1))
                   /\ out.qty = 416
                   /\ Eq(out.stop_price, Q(sz_sig.breakout_price - 3, 1))

\* The order for atr 2 and an equity of 100000.
C18_Witness ==
    /\ sz_out["auto_bot"].done
    /\ Eq(sz_sig.atr, Q(2, 1)) /\ sz_equity = 100000
    /\ sz_out["auto_bot"].qty = 416

C20_FalseMeansNoReasonToExit ==
    /\ ex_state = "raised" => ex_df.n < 11
    /\ ex_state = "built" => ex_df.n >= 11
    /\ (ex_state = "built" /\ ex_df.validity = "valid") =>
           /\ ex_atr_trail.called => ex_atr_trail.branch = "compared"
           /\ ex_ema_cross.called => ex_ema_cross.branch = "compared"

\* Both triggers answered False on exactly 11 valid bars.
C20_Witness ==
    /\ ex_state = "built" /\ ex_df.n = 11 /\ ex_df.validity = "valid"
    /\ ex_atr_trail.called /\ ~ex_atr_trail.value
    /\ ex_ema_cross.called /\ ~ex_ema_cross.value


\* Ten times the ATR10 of the last bar of a valid frame of 11 bars or more
\* whose last Low is not lowered: eight flat bars of true range 2, and the
\* true ranges of the last two bars.
ExFlatRange(a, b) == IF Abs(a - b) + 1 > 2 THEN Abs(a - b) + 1 ELSE 2

ExRangeSum(low) ==
    LET high == ex_df.last + 1
        ranges == {high - low, Abs(high - ex_df.prev), Abs(low - ex_df.prev)}
    IN  16 + ExFlatRange(ex_df.prev, 100)
           + (CHOOSE r \in ranges : \A q \in ranges : q <= r)

ExLastLow == ex_df.last - 1 - ex_df.drop

\* The last Low was set to the whole number just below the stop level the
\* frame had before the Low was touched.
ExLowForcedBelowStop ==
    /\ ex_df.drop > 0
    /\ 20 * ExLastLow < 20 * ex_entry - 3 * ExRangeSum(ex_df.last - 1)
    /\ 20 * ex_entry - 3 * ExRangeSum(ex_df.last - 1) <= 20 * (ExLastLow + 1)

\* C21: on valid bars atr_trail(1.5) is True exactly when the last Low is
\* below entry_price - ATR10 * 1.5, whatever the highs since entry, and a
\* last Low forced just below that level makes it True.
C21_StopAnchoredToEntry ==
    (ex_atr_trail.called /\ ex_df.validity = "valid" /\ ex_df.shape = "flat") =>
        /\ ex_atr_trail.value
               <=> (20 * ExLastLow < 20 * ex_entry - 3 * ExRangeSum(ExLastLow))
        /\ ExLowForcedBelowStop => ex_atr_trail.value


\* The last two closes of the frame, and its 10-period average two bars
\* before the end: 100 on a flat frame, and from 1005 up by 10 with every
\* bar on a rising one.
ExPrevClose == IF ex_df.shape = "rising" THEN 1030 + 10 * ex_df.n ELSE ex_df.prev

ExLastClose ==
    IF ex_df.shape = "flat" THEN ex_df.last
    ELSE IF ex_df.last = 90 THEN (ExPrevClose * 9) \div 10
    ELSE 1040 + 10 * ex_df.n

ExEmaBefore == IF ex_df.shape = "rising" THEN 1005 + 10 * (ex_df.n - 3) ELSE 100

\* C22: on valid bars ema_cross() is True exactly when the last Close is
\* strictly below the 10-period EMA of Close at the last bar, the EMA seeded
\* with the first close and smoothed by 2/11: the EMA of the last bar is
\* (2 * last + 9 * (2 * prev + 9 * before) / 11) / 11.  It is False on a
\* steadily rising series and True when the last Close of that series is
\* forced 10% below the close before it.
C22_CloseBelowEma ==
    (ex_ema_cross.called /\ ex_df.validity = "valid") =>
        /\ ex_ema_cross.value
               <=> (121 * ExLastClose
                        < 22 * ExLastClose + 18 * ExPrevClose + 81 * ExEmaBefore)
        /\ (ex_df.shape = "rising" /\ ex_df.last = 100) => ~ex_ema_cross.value
        /\ (ex_df.shape = "rising" /\ ex_df.last = 90) => ex_ema_cross.value

\* On a rising frame of 20 bars the last Close was forced 10% below the one
\* before, from 1230 to 1107, and ema_cross answered True.
C22_Witness ==
    /\ ex_ema_cross.called /\ ex_ema_cross.value
    /\ ex_df.shape = "rising" /\ ex_df.n = 20 /\ ex_df.last = 90
    /\ 10 * ExLastClose = 9 * ExPrevClose


\* ------------------------------------------------------------------------
\* Claims about the exit loop (SpecExitCycle)
\* ------------------------------------------------------------------------
XcEvaluable(pos) == pos.case \notin {"no_data", "short"}

XcTriggered(pos) == pos.case \in {"atr_only", "ema_only", "both"}

XcExitCalls(symbol) ==
    Cardinality({k \in 1..Len(xc_exits) : xc_exits[k] = symbol})

XcRequestsFor(symbol) ==
    {k \in 1..Len(xc_requests) : xc_requests[k].symbol = symbol}

WbRowIsSound(row) ==
    LET usable == row.has_qty /\ ~row.Qty.nan /\ row.Qty.num # 0
    IN  IF usable THEN row.Qty.num >= row.Qty.den ELSE row.Entry # row.Stop

WbAllSound == \A k \in 1..Len(wb_csv.rows) : WbRowIsSound(wb_csv.rows[k])

WkCallsMade == IF wk_run = 0 THEN 0 ELSE (wk_run - 1) * Len(WkTickers) + wk_i

RECURSIVE WkCounterSum(_)
WkCounterSum(keys) ==
    IF keys = {} THEN 0
    ELSE LET k == CHOOSE x \in keys : TRUE
         IN  counter[k] + WkCounterSum(keys \ {k})

\* C26: every call of analyze_one_asof increments exactly one counter by one,
\* so the counters add up to the number of calls made, and the call that
\* returns a row is the call that counts under "pass".
C26_OneCounterPerCall ==
    /\ WkCounterSum(CounterKeys) = WkCallsMade
    /\ wk_last.symbol # "none" => (wk_last.returned <=> wk_last.key = "pass")

\* ------------------------------------------------------------------------
\* sepa/patterns.py: vcp_mask
\* ------------------------------------------------------------------------
\* the longest frame given to vcp_mask
MaxBars == 4

MkBar(high, low) == [High |-> high, Low |-> low]

\* tr = (high - low) / high at bar k (bars are counted from 1)
tr(df, k) == Q(df[k].High - df[k].Low, df[k].High)

\* tr[win_start:i+1].max() with win_start = max(0, i - lookback), for the
\* bar k = i + 1
peak(df, k, lookback) ==
    LET win_start == IF k - lookback < 1 THEN 1 ELSE k - lookback
        window == {tr(df, j) : j \in win_start..k}
    IN  CHOOSE x \in window : \A y \in window : Le(y, x)

\* high.rolling(lookback).max() at bar k: NaN before lookback bars exist
pivot_hi(df, k, lookback) ==
    IF k < lookback THEN NaN
    ELSE LET window == {df[j].High : j \in (k - lookback + 1)..k}
         IN  Q(CHOOSE x \in window : \A y \in window : y <= x, 1)

\* near_hi = high <= pivot_hi * (1 - price_near_high_pct) at bar k, with the
\* percentage in hundredths
near_hi(df, k, args) ==
    Le(Q(df[k].High, 1),
       Times(pivot_hi(df, k, args.lookback), 100 - args.price_near_high_pct, 100))

MkBars == {MkBar(100, 80), MkBar(100, 90), MkBar(100, 96), MkBar(80, 72), MkBar(80, 78)}

MkFrames == UNION {[1..n -> MkBars] : n \in 2..MaxBars}

MkArgs ==
    [lookback : {2, 3}, min_contractions : {1, 2}, ratio : {Q(4, 5)},
     price_near_high_pct : {12}]

\* vcp_mask(df, lookback, min_contractions, ratio, price_near_high_pct) is
\* called.
MkInit ==
    /\ mk_df \in MkFrames
    /\ mk_args \in MkArgs
    /\ mk_pc = "call"
    /\ mk_i = 0
    /\ prev_peak = NaN
    /\ running = 0
    /\ contr_cnt = <<>>
    /\ mk_mask = <<>>
    /\ RsOff /\ TtOff /\ BotOff /\ WkOff /\ BbOff /\ MrOff /\ IdOff /\ VcOff /\ SzOff /\ ExOff /\ XcOff /\ PuOff /\ WbOff /\ SgOff

\* Lines 96-108: a frame shorter than lookback + 1 returns all False;
\* otherwise the loop starts with prev_peak = nan and running = 0.
MkCall ==
    /\ mk_pc = "call"
    /\ IF Len(mk_df) < mk_args.lookback + 1
       THEN /\ mk_mask' = [k \in 1..Len(mk_df) |-> FALSE]
            /\ mk_pc' = "returned"
       ELSE /\ mk_mask' = mk_mask
            /\ mk_pc' = "loop"
    /\ UNCHANGED <<mk_df, mk_args, mk_i, prev_peak, running, contr_cnt, NotMk>>

\* One pass of `for i, tr_val in enumerate(tr)` (lines 110-121).
MkStep ==
    /\ mk_pc = "loop"
    /\ mk_i < Len(mk_df)
    /\ LET k == mk_i + 1
           tr_val == tr(mk_df, k)
           seeded == IF IsNaN(prev_peak) THEN peak(mk_df, k, mk_args.lookback) ELSE prev_peak
           contracted == Lt(tr_val, Times(seeded, mk_args.ratio.num, mk_args.ratio.den))
       IN  /\ running' = IF contracted THEN running + 1 ELSE running
           /\ prev_peak' = IF contracted THEN tr_val ELSE seeded
           /\ contr_cnt' = Append(contr_cnt, running')
    /\ mk_i' = mk_i + 1
    /\ UNCHANGED <<mk_df, mk_args, mk_pc, mk_mask, NotMk>>

\* Lines 123-128: mask = contr_ok & near_hi.
MkReturn ==
    /\ mk_pc = "loop"
    /\ mk_i = Len(mk_df)
    /\ mk_mask' = [k \in 1..Len(mk_df) |->
                      /\ contr_cnt[k] >= mk_args.min_contractions
                      /\ near_hi(mk_df, k, mk_args)]
    /\ mk_pc' = "returned"
    /\ UNCHANGED <<mk_df, mk_args, mk_i, prev_peak, running, contr_cnt, NotMk>>

MkNext ==
    \/ MkCall
    \/ MkStep
    \/ MkReturn

SpecMask == MkInit /\ [][MkNext]_vars

\* ------------------------------------------------------------------------
\* Claims about vcp_mask (SpecMask)
\* ------------------------------------------------------------------------
\* prev_peak as the comparison of a pass reads it: the nan of the start is
\* replaced by the peak of the window.
MkPrevPeakRead ==
    IF IsNaN(prev_peak) THEN peak(mk_df, mk_i + 1, mk_args.lookback) ELSE prev_peak

\* C27: at every bar of the pass, a range fraction below previous peak x ratio
\* adds one to the contraction count and makes that fraction the previous
\* peak; otherwise the previous peak becomes the largest range fraction of the
\* lookback window ending at the bar.
C27_PeakFollowsWindow ==
    [][(mk_pc = "loop" /\ mk_i' = mk_i + 1) =>
          IF Lt(tr(mk_df, mk_i + 1),
                Times(MkPrevPeakRead, mk_args.ratio.num, mk_args.ratio.den))
          THEN /\ running' = running + 1
               /\ Eq(prev_peak', tr(mk_df, mk_i + 1))
          ELSE /\ running' = running
               /\ Eq(prev_peak', peak(mk_df, mk_i + 1, mk_args.lookback))]_vars

\* The largest High of the lookback bars ending at bar k.
MkPivotHigh(k) ==
    LET window == {mk_df[j].High : j \in (k - mk_args.lookback + 1)..k}
    IN  CHOOSE x \in window : \A y \in window : y <= x

\* Bar k is within price_near_high_pct of its pivot high.
MkNearPivot(k) ==
    /\ k >= mk_args.lookback
    /\ mk_df[k].High * 100 >= MkPivotHigh(k) * (100 - mk_args.price_near_high_pct)

\* C28: vcp_mask flags a bar exactly when its contraction count has reached
\* min_contractions and its price is within price_near_high_pct of the
\* pivot high of the lookback window; a frame shorter than lookback + 1 is
\* all False.
C28_FlaggedNearPivotHigh ==
    mk_pc = "returned" =>
        /\ Len(mk_mask) = Len(mk_df)
        /\ Len(mk_df) < mk_args.lookback + 1 => \A k \in 1..Len(mk_df) : ~mk_mask[k]
        /\ Len(mk_df) >= mk_args.lookback + 1 =>
              \A k \in 1..Len(mk_df) :
                  mk_mask[k] <=> (contr_cnt[k] >= mk_args.min_contractions /\ MkNearPivot(k))

\* ------------------------------------------------------------------------
\* Claims about the contraction check of check_today (SpecVcp)
\* ------------------------------------------------------------------------
\* The ranges of the three bars before the final bar, oldest first.
VcRangesBefore == <<vc_body.r3, vc_body.r2, vc_body.r1>>

\* C29: a signal is emitted only if, of the three ranges ending at the bar
\* before the final bar, each is strictly less than half the one before it;
\* a history whose ranges shrink by only 15% a step gives (False, None).
C29_SignalOnlyAfterContraction ==
    \A x \in VcRuns :
        vc_out[x].called =>
            /\ vc_out[x].stage = "signal" =>
                   \A i \in 2..3 : 2 * VcRangesBefore[i] < VcRangesBefore[i - 1]
            /\ vc_body.r2 = 68 => ~vc_out[x].flag /\ vc_out[x].is_none

\* A signal was emitted after ranges of 80, 32 and 12.
C29_Witness ==
    \E x \in VcRuns :
        /\ vc_out[x].called /\ vc_out[x].stage = "signal" /\ vc_out[x].flag
        /\ VcRangesBefore = <<80, 32, 12>>

\* ------------------------------------------------------------------------
\* scripts/generate_weekly_signals.py: the weekly loop, row by row
\* ------------------------------------------------------------------------
\* the number of Fridays of pd.date_range(start_day, end_day, freq="W-FRI")
MaxWeeks == 3

SgSymbols == {"AAA", "BBB"}

\* -t/--ticker through expand_ticker_cli keeps a symbol given twice;
\* load_universe and the default list give each symbol once.
SgTickerLists == UNION {[1..n -> SgSymbols] : n \in 1..2}

SgRow(symbol, date, entry) == [symbol |-> symbol, date |-> date, entry |-> entry, exit |-> ~entry]

\* The rows of seq whose symbol is in symbols, in order.
RECURSIVE SgSelect(_, _)
SgSelect(seq, symbols) ==
    IF seq = <<>> THEN <<>>
    ELSE LET rest == SgSelect(Tail(seq), symbols)
         IN  IF Head(seq).symbol \in symbols THEN <<Head(seq)>> \o rest ELSE rest

\* The orders in which list(exits) may give a set of symbols.
SgListsOf(symbols) ==
    {s \in [1..Cardinality(symbols) -> symbols] :
        \A i, j \in 1..Cardinality(symbols) : i # j => s[i] # s[j]}

SgInit ==
    /\ sg_tickers \in SgTickerLists
    /\ sg_pc = "loop"
    /\ sg_week = 0
    /\ sg_passed = {}
    /\ sg_holding = {}
    /\ sg_records = <<>>
    /\ RsOff /\ TtOff /\ BotOff /\ WkOff /\ BbOff /\ MrOff /\ IdOff /\ VcOff /\ SzOff /\ ExOff /\ XcOff /\ PuOff /\ WbOff /\ MkOff

\* One pass of `for dt in pd.date_range(...)` (lines 109-134): a row for each
\* ticker of the list that analyze_one_asof returns one for, the entry rows
\* taken from those rows, one exit row for each symbol dropped, and
\* holding = current.
SgWeek ==
    /\ sg_pc = "loop"
    /\ sg_week < MaxWeeks
    /\ \E passed \in SUBSET {sg_tickers[i] : i \in 1..Len(sg_tickers)} :
          LET dt == sg_week + 1
              all_rows == [i \in 1..Len(sg_tickers) |-> SgRow(sg_tickers[i], dt, TRUE)]
              hits_df == SgSelect(all_rows, passed)
              current == {hits_df[i].symbol : i \in 1..Len(hits_df)}
              new_entries == current \ sg_holding
              exits == sg_holding \ current
          IN  /\ \E order \in SgListsOf(exits) :
                    sg_records' = sg_records \o SgSelect(hits_df, new_entries)
                                     \o [i \in 1..Len(order) |-> SgRow(order[i], dt, FALSE)]
              /\ sg_holding' = current
              /\ sg_passed' = passed
    /\ sg_week' = sg_week + 1
    /\ UNCHANGED <<sg_tickers, sg_pc, NotSg>>

\* Lines 147-151: the CSV is written if there is any record.
SgWriteCsv ==
    /\ sg_pc = "loop"
    /\ sg_week = MaxWeeks
    /\ sg_pc' = IF sg_records # <<>> THEN "csv_saved" ELSE "no_csv"
    /\ UNCHANGED <<sg_tickers, sg_week, sg_passed, sg_holding, sg_records, NotSg>>

SgNext ==
    \/ SgWeek
    \/ SgWriteCsv

SpecSignals == SgInit /\ [][SgNext]_vars

\* ------------------------------------------------------------------------
\* Claims about the weekly loop (SpecSignals)
\* ------------------------------------------------------------------------
\* The rows recorded for one symbol, in order.
SgRowsOf(symbol) == SgSelect(sg_records, {symbol})

\* C30: after every week holding is the set of symbols that passed that
\* week; the rows of a symbol alternate entry, exit, entry, ... starting
\* with an entry, so that no symbol has two entries without an exit between
\* them or an entry and an exit in the same week; an entry is recorded only
\* for a symbol not held the week before and an exit only for a held symbol
\* that no longer passes.
C30_EntriesAndExitsAlternate ==
    /\ sg_holding = sg_passed
    /\ \A s \in SgSymbols :
          LET rows == SgRowsOf(s)
          IN  /\ \A i \in 1..Len(rows) : rows[i].entry <=> (i % 2 = 1)
              /\ \A i, j \in 1..Len(rows) : i < j => rows[i].date < rows[j].date
              /\ (s \in sg_holding) <=> (Len(rows) % 2 = 1)
=============================================================================
